---- MODULE Spec2Model ----
(***************************************************************************)
(* rubiks-race: a two-player sliding-tile race.                            *)
(*   src/src/types.rs     protocol messages, Color, Board<T>               *)
(*   src/src/utils.rs     slide (the client's move enumeration)            *)
(*   src/src/handlers.rs  server: lobby_loop, game_loop, ws_loop           *)
(*   src/src/app/game.rs  client: Board (tiles with identity), Game        *)
(*                                                                         *)
(* Rust tuples (a, b) are TLA+ tuples <<a, b>>: pos.0 is pos[1] and pos.1  *)
(* is pos[2].  Rust arrays are functions over 0..len-1.  Option<T> is a    *)
(* sequence of length at most one: None is <<>> and Some(x) is <<x>>.      *)
(***************************************************************************)
EXTENDS Integers, Sequences, FiniteSets, TLC

\* ---------------------------------------------------------------- bounds
\* Seeds of the shuffle outcomes Board::generate is run on: 0..MaxSeed.
MaxSeed == 1
\* Clicks applied to one board in the board-engine specification.
MaxBoardClicks == 3
\* Websockets the lobby accepts over a run.
MaxConns == 3
\* Message events the connections of one event channel pass on in total.
MaxMsgs == 2
\* Frames the client's receive loop takes off its connection.
MaxFrames == 3
\* Clicks the user makes on the client's board.
MaxLocalClicks == 2
\* Ticks of the client's keepalive interval.
MaxPings == 1
\* Colors the draws of generate_target range over: 0..MaxDrawColor.
MaxDrawColor == 2
\* Attempts of generate_target that may be discarded before one completes.
MaxRetries == 1
\* Seeds of the shuffle outcomes of the generator specification.
MaxShuffleSeed == 63

\* ------------------------------------------------------------- constants
\* [[Option<T>; 5]; 5]
GridSize == 5
\* Color::COUNT (strum::EnumCount of the six-variant enum)
ColorCount == 6
\* [Color; 24], 0..24
TileCount == 24
\* each color is i / 4 for i in 0..24, and the cap `*count > 4`
PerColor == 4

Idx == 0 .. (GridSize - 1)
Colors == 0 .. (ColorCount - 1)
Cells == Idx \X Idx

None == << >>
Some(x) == << x >>

\* usize::cmp
Cmp(a, b) == IF a < b THEN "Less" ELSE IF a = b THEN "Equal" ELSE "Greater"

\* BoardTiles::default(): every cell None
EmptyTiles == [i \in Idx |-> [j \in Idx |-> None]]

\* ------------------------------------------------ server board: generate
\* The array before the shuffle: colors[i] = (i / 4).into()
BaseColors == [i \in 0 .. (TileCount - 1) |-> i \div PerColor]

\* colors.shuffle(rng) is rand's Fisher-Yates: for i in (1..len).rev(),
\* swap(i, gen_range(0..=i)).  The draw made at step i under seed s is
\* Draw(s, i): one deterministic stand-in for the generator per seed.
Draw(s, i) == ((s + 2) * (i + 3) + s * i * i) % (i + 1)

RECURSIVE ShuffleFrom(_, _, _)
ShuffleFrom(a, s, i) ==
    IF i < 1 THEN a
    ELSE LET j == Draw(s, i)
         IN ShuffleFrom([a EXCEPT ![i] = a[j], ![j] = a[i]], s, i - 1)

Shuffle(s) == ShuffleFrom(BaseColors, s, TileCount - 1)

\* The position of cell (i, j) in the row-major walk that skips (2, 2).
SlotOf(i, j) == LET k == i * GridSize + j IN IF k > 12 THEN k - 1 ELSE k

\* generate leaving the last cell empty instead of the center.
generateLastEmpty(colors) ==
    [tiles |-> [i \in Idx |-> [j \in Idx |->
                   IF i = 4 /\ j = 4 THEN None ELSE Some(colors[i * GridSize + j])]],
     hole  |-> <<2, 2>>]

\* Board::generate, on the shuffled array `colors`
generate(colors) ==
    [tiles |-> [i \in Idx |-> [j \in Idx |->
                   IF i = 2 /\ j = 2 THEN None ELSE Some(colors[SlotOf(i, j)])]],
     hole  |-> <<2, 2>>]

\* ---------------------------------------------- server board: click_tile
\* A loop state l is the tiles so far (l.t) and whether an index ran out of
\* bounds (l.panic).

\* RowRev with the copy turned round (row[i] = row[i + 1]).
RECURSIVE RowRevBackwards(_, _, _, _)
RowRevBackwards(l, r, lo, i) ==
    IF i < lo \/ l.panic THEN l
    ELSE IF i + 1 >= GridSize THEN [l EXCEPT !.panic = TRUE]
    ELSE RowRevBackwards([l EXCEPT !.t[r][i] = l.t[r][i + 1]], r, lo, i - 1)

RECURSIVE RowRev(_, _, _, _)
\* for i in (lo..hi).rev() { row[i + 1] = row[i]; }  entered with i = hi - 1
RowRev(l, r, lo, i) ==
    IF i < lo \/ l.panic THEN l
    ELSE IF i + 1 >= GridSize THEN [l EXCEPT !.panic = TRUE]
    ELSE RowRev([l EXCEPT !.t[r][i + 1] = l.t[r][i]], r, lo, i - 1)

RECURSIVE RowFwd(_, _, _, _)
\* for i in lo..hi { row[i] = row[i + 1]; }  entered with i = lo
RowFwd(l, r, i, hi) ==
    IF i >= hi \/ l.panic THEN l
    ELSE IF i + 1 >= GridSize THEN [l EXCEPT !.panic = TRUE]
    ELSE RowFwd([l EXCEPT !.t[r][i] = l.t[r][i + 1]], r, i + 1, hi)

RECURSIVE ColRev(_, _, _, _)
\* for i in (lo..hi).rev() { tiles[i + 1][c] = tiles[i][c] }
ColRev(l, c, lo, i) ==
    IF i < lo \/ l.panic THEN l
    ELSE IF i + 1 >= GridSize THEN [l EXCEPT !.panic = TRUE]
    ELSE ColRev([l EXCEPT !.t[i + 1][c] = l.t[i][c]], c, lo, i - 1)

\* ColFwd with the copy turned round (tiles[i + 1][c] = tiles[i][c]).
RECURSIVE ColFwdBackwards(_, _, _, _)
ColFwdBackwards(l, c, i, hi) ==
    IF i >= hi \/ l.panic THEN l
    ELSE IF i + 1 >= GridSize THEN [l EXCEPT !.panic = TRUE]
    ELSE ColFwdBackwards([l EXCEPT !.t[i + 1][c] = l.t[i][c]], c, i + 1, hi)

RECURSIVE ColFwd(_, _, _, _)
\* for i in lo..hi { tiles[i][c] = tiles[i + 1][c] }
ColFwd(l, c, i, hi) ==
    IF i >= hi \/ l.panic THEN l
    ELSE IF i + 1 >= GridSize THEN [l EXCEPT !.panic = TRUE]
    ELSE ColFwd([l EXCEPT !.t[i][c] = l.t[i + 1][c]], c, i + 1, hi)

\* click_tile without `row[pos.1] = None` / `tiles[pos.0][pos.1] = None`:
\* the clicked cell keeps its tile.
click_tileKeepsClicked(b, pos) ==
    LET hole    == b.hole
        row_cmp == Cmp(pos[1], hole[1])
        col_cmp == Cmp(pos[2], hole[2])
        start   == [t |-> b.tiles, panic |-> FALSE]
        same    == [tiles |-> b.tiles, hole |-> b.hole,
                    updated |-> FALSE, panic |-> FALSE]
        moved(l) == [tiles |-> l.t, hole |-> IF l.panic THEN b.hole ELSE pos,
                     updated |-> ~l.panic, panic |-> l.panic]
    IN  IF row_cmp = "Equal" THEN
            CASE col_cmp = "Less"    -> moved(RowRev(start, pos[1], pos[2], hole[2] - 1))
              [] col_cmp = "Greater" -> moved(RowFwd(start, pos[1], hole[2], pos[2]))
              [] OTHER               -> same
        ELSE IF col_cmp = "Equal" THEN
            CASE row_cmp = "Less"    -> moved(ColRev(start, pos[2], pos[1], hole[1] - 1))
              [] row_cmp = "Greater" -> moved(ColFwd(start, pos[2], hole[1], pos[1]))
              [] OTHER               -> same
        ELSE same

\* Board::click_tile(&mut self, pos) -> bool.  The result carries the board
\* after the call, the returned flag, and whether the call panicked on an
\* index (it is called with a position the caller has not bounded).
click_tile(b, pos) ==
    LET hole    == b.hole
        row_cmp == Cmp(pos[1], hole[1])
        col_cmp == Cmp(pos[2], hole[2])
        start   == [t |-> b.tiles, panic |-> FALSE]
        same    == [tiles |-> b.tiles, hole |-> b.hole,
                    updated |-> FALSE, panic |-> FALSE]
        moved(l) ==
            IF l.panic
            THEN [tiles |-> l.t, hole |-> b.hole, updated |-> FALSE, panic |-> TRUE]
            ELSE [tiles |-> [l.t EXCEPT ![pos[1]][pos[2]] = None], hole |-> pos,
                  updated |-> TRUE, panic |-> FALSE]
    IN  IF row_cmp = "Equal" THEN
            CASE col_cmp = "Less"    -> moved(RowRev(start, pos[1], pos[2], hole[2] - 1))
              [] col_cmp = "Greater" -> moved(RowFwd(start, pos[1], hole[2], pos[2]))
              [] OTHER               -> same
        ELSE IF col_cmp = "Equal" THEN
            CASE row_cmp = "Less"    -> moved(ColRev(start, pos[2], pos[1], hole[1] - 1))
              [] row_cmp = "Greater" -> moved(ColFwd(start, pos[2], hole[1], pos[1]))
              [] OTHER               -> same
        ELSE same

\* ------------------------------------------------- client board (game.rs)
\* The occupied cells of the received grid in row-major order, as (i, j, color).
RECURSIVE OccupiedFrom(_, _)
OccupiedFrom(tiles, k) ==
    IF k >= GridSize * GridSize THEN << >>
    ELSE LET i == k \div GridSize
             j == k % GridSize
             rest == OccupiedFrom(tiles, k + 1)
         IN IF tiles[i][j] = None THEN rest
            ELSE << <<i, j, tiles[i][j][1]>> >> \o rest

\* Board::new(inner): locations.iter_mut().zip(colors).enumerate()
BoardNew(inner) ==
    LET occ == OccupiedFrom(inner.tiles, 0)
        n   == IF Len(occ) < TileCount THEN Len(occ) ELSE TileCount
    IN  [locations |-> [idx \in 0 .. (TileCount - 1) |->
                           IF idx < n THEN <<occ[idx + 1][1], occ[idx + 1][2]>>
                           ELSE <<0, 0>>],
         tiles |-> [i \in Idx |-> [j \in Idx |->
                       IF \E idx \in 0 .. (n - 1) :
                              occ[idx + 1][1] = i /\ occ[idx + 1][2] = j
                       THEN LET idx == CHOOSE x \in 0 .. (n - 1) :
                                           occ[x + 1][1] = i /\ occ[x + 1][2] = j
                            IN Some([idx |-> idx, color |-> occ[idx + 1][3]])
                       ELSE None]],
         hole  |-> inner.hole]

\* utils::slide: the calls f(old, new) it makes, in order, and its result.
RECURSIVE SlideRev(_, _, _, _)
\* for i in (lo..hi).rev(): row moves f((r, i), (r, i + 1)); column moves
\* f((i, c), (i + 1, c)).  `row` tells which; `k` is the fixed coordinate.
SlideRev(row, k, lo, i) ==
    IF i < lo THEN << >>
    ELSE << IF row THEN << <<k, i>>, <<k, i + 1>> >>
                   ELSE << <<i, k>>, <<i + 1, k>> >> >>
         \o SlideRev(row, k, lo, i - 1)

RECURSIVE SlideFwd(_, _, _, _)
\* for i in lo..hi: row moves f((r, i + 1), (r, i)); column moves
\* f((i + 1, c), (i, c)).
SlideFwd(row, k, i, hi) ==
    IF i >= hi THEN << >>
    ELSE << IF row THEN << <<k, i + 1>>, <<k, i>> >>
                   ELSE << <<i + 1, k>>, <<i, k>> >> >>
         \o SlideFwd(row, k, i + 1, hi)

slide(pos, hole) ==
    LET row_cmp == Cmp(pos[1], hole[1])
        col_cmp == Cmp(pos[2], hole[2])
    IN  CASE row_cmp = "Equal" /\ col_cmp = "Less" ->
               [ok |-> TRUE, calls |-> SlideRev(TRUE, pos[1], pos[2], hole[2] - 1)]
          [] row_cmp = "Equal" /\ col_cmp = "Greater" ->
               [ok |-> TRUE, calls |-> SlideFwd(TRUE, pos[1], hole[2], pos[2])]
          [] row_cmp = "Less" /\ col_cmp = "Equal" ->
               [ok |-> TRUE, calls |-> SlideRev(FALSE, pos[2], pos[1], hole[1] - 1)]
          [] row_cmp = "Greater" /\ col_cmp = "Equal" ->
               [ok |-> TRUE, calls |-> SlideFwd(FALSE, pos[2], hole[1], pos[1])]
          [] OTHER -> [ok |-> FALSE, calls |-> << >>]

\* The closure `update` without its first statement: the tile is copied
\* and the locations table is left as it was.
RECURSIVE ApplyUpdatesKeepLocations(_, _, _)
ApplyUpdatesKeepLocations(b, calls, k) ==
    IF k > Len(calls) \/ b.panic THEN b
    ELSE LET old == calls[k][1]
             new == calls[k][2]
         IN IF    old[1] \notin Idx \/ old[2] \notin Idx
               \/ new[1] \notin Idx \/ new[2] \notin Idx
            THEN [b EXCEPT !.panic = TRUE]
            ELSE IF b.tiles[old[1]][old[2]] = None
            THEN [b EXCEPT !.panic = TRUE]
            ELSE ApplyUpdatesKeepLocations(
                   [b EXCEPT !.tiles[new[1]][new[2]] = b.tiles[old[1]][old[2]]],
                   calls, k + 1)

\* The closure `update` of click_pos, applied to the calls of slide in
\* order.  Indexing outside the grid and unwrap() of None panic.
RECURSIVE ApplyUpdates(_, _, _)
ApplyUpdates(b, calls, k) ==
    IF k > Len(calls) \/ b.panic THEN b
    ELSE LET old == calls[k][1]
             new == calls[k][2]
         IN IF    old[1] \notin Idx \/ old[2] \notin Idx
               \/ new[1] \notin Idx \/ new[2] \notin Idx
            THEN [b EXCEPT !.panic = TRUE]
            ELSE IF b.tiles[old[1]][old[2]] = None
            THEN [b EXCEPT !.panic = TRUE]
            ELSE ApplyUpdates(
                   [b EXCEPT !.locations[b.tiles[old[1]][old[2]][1].idx] = new,
                             !.tiles[new[1]][new[2]] = b.tiles[old[1]][old[2]]],
                   calls, k + 1)

\* click_pos without the early return: the hole is moved even when slide
\* reports that nothing slid.
click_posNoEarlyReturn(b, pos) ==
    LET s == slide(pos, b.hole)
        u == ApplyUpdates([locations |-> b.locations, tiles |-> b.tiles,
                           hole |-> b.hole, panic |-> FALSE], s.calls, 1)
    IN  [locations |-> u.locations, tiles |-> u.tiles, hole |-> pos,
         updated |-> s.ok, panic |-> u.panic]

\* Board::click_pos(&mut self, pos) -> bool
click_pos(b, pos) ==
    LET s == slide(pos, b.hole)
        u == ApplyUpdates([locations |-> b.locations, tiles |-> b.tiles,
                           hole |-> b.hole, panic |-> FALSE], s.calls, 1)
    IN  IF ~s.ok
        THEN [locations |-> b.locations, tiles |-> b.tiles, hole |-> b.hole,
              updated |-> FALSE, panic |-> FALSE]
        ELSE IF u.panic
        THEN [locations |-> u.locations, tiles |-> u.tiles, hole |-> b.hole,
              updated |-> FALSE, panic |-> TRUE]
        ELSE [locations |-> u.locations, tiles |-> u.tiles, hole |-> pos,
              updated |-> TRUE, panic |-> FALSE]

\* --------------------------------------------------------- matches_target
\* cell_matches with an empty cell counted as a match (unwrap_or(true)).
cell_matchesEmptyOk(tile, target_color, client) ==
    IF tile = None THEN TRUE
    ELSE (IF client THEN tile[1].color ELSE tile[1]) = target_color

\* Board<T>::matches_target: rows 1..=3 zipped with the target's rows, cells
\* 1..=3 of each zipped with the target row; colorOf is T::into (the
\* identity for a server board, Tile::color for a client board).
cell_matches(tile, target_color, client) ==
    IF tile = None THEN FALSE
    ELSE (IF client THEN tile[1].color ELSE tile[1]) = target_color

\* matches_target reading rows 0..=2 and cells 0..=2 (no `[1..=3]`).
matches_targetTopLeft(tiles, target, client) ==
    \A r \in 0 .. 2 : \A c \in 0 .. 2 :
        cell_matches(tiles[r][c], target[r][c], client)

matches_target(tiles, target, client) ==
    \A r \in 0 .. 2 : \A c \in 0 .. 2 :
        cell_matches(tiles[r + 1][c + 1], target[r][c], client)

\* -------------------------------------------------------- generate_target
\* Target::default(): Color::White everywhere
DefaultTarget == [r \in 0 .. 2 |-> [c \in 0 .. 2 |-> 0]]
ZeroCounts == [c \in Colors |-> 0]

\* The 'retry loop over a finite sequence of gen_range results: k is the
\* slot about to be written in this attempt, d the next draw.  done is
\* FALSE when the draws run out before an attempt completes.
\* target_slot with the cap one too high (`*count > 5`).
target_slotCapFive(g, idx) ==
    IF g.counts[idx] + 1 > PerColor + 1
    THEN [g EXCEPT !.counts = ZeroCounts, !.k = 0]
    ELSE [target |-> [g.target EXCEPT ![g.k \div 3][g.k % 3] = idx],
          counts |-> [g.counts EXCEPT ![idx] = @ + 1],
          k      |-> g.k + 1]

\* The body of the inner loop for one slot, on the draw idx: g is the
\* target as it stands, the counts of this attempt and the slot k about to
\* be written.  `continue 'retry` starts over at slot 0 with fresh counts
\* and leaves target as the discarded attempt wrote it.
target_slot(g, idx) ==
    IF g.counts[idx] + 1 > PerColor
    THEN [g EXCEPT !.counts = ZeroCounts, !.k = 0]
    ELSE [target |-> [g.target EXCEPT ![g.k \div 3][g.k % 3] = idx],
          counts |-> [g.counts EXCEPT ![idx] = @ + 1],
          k      |-> g.k + 1]

RECURSIVE TargetFill(_, _, _, _, _)
TargetFill(target, counts, k, draws, d) ==
    IF k = 9 THEN [done |-> TRUE, target |-> target]
    ELSE IF d > Len(draws) THEN [done |-> FALSE, target |-> target]
    ELSE LET g == target_slot([target |-> target, counts |-> counts, k |-> k],
                              draws[d])
         IN  TargetFill(g.target, g.counts, g.k, draws, d + 1)

generate_target(draws) == TargetFill(DefaultTarget, ZeroCounts, 0, draws, 1)

\* ------------------------------------------------------- protocol messages
\* ServerMessage
GameStartMsg(target, board, opponent_board) ==
    [t |-> "GameStart", target |-> target, board |-> board,
     opponent_board |-> opponent_board]
OpponentLeftMsg == [t |-> "OpponentLeft"]
OpponentClickMsg(pos) == [t |-> "OpponentClick", pos |-> pos]
GameEndMsg(is_win) == [t |-> "GameEnd", is_win |-> is_win]

\* bincode of a ClientMessage: the variant index, then the fields in order.
\* types.rs declares the single variant Click { pos }, index 0.
serialize_click(pos) == <<0, pos[1], pos[2]>>

\* bincode::deserialize::<ClientMessage>: Ok(Click) for variant 0 followed by
\* two integers, Err for anything else.
deserialize_client(bytes) ==
    IF Len(bytes) = 3 /\ bytes[1] = 0
    THEN [ok |-> TRUE, pos |-> <<bytes[2], bytes[3]>>]
    ELSE [ok |-> FALSE, pos |-> << >>]

\* A sent message as the send log keeps it: GameStart without its grids.
Brief(msg) == IF msg.t = "GameStart" THEN [t |-> "GameStart"] ELSE msg
BriefAll(msgs) == [n \in 1 .. Len(msgs) |-> Brief(msgs[n])]

\* GameEvent
MessageEv(id, pos, from) == [t |-> "Message", id |-> id, pos |-> pos, from |-> from]
DisconnectedEv(id, from) == [t |-> "Disconnected", id |-> id, pos |-> << >>, from |-> from]

\* ------------------------------------------------- game_loop: one event
NoOut == [i \in 0 .. 1 |-> << >>]

\* win handling with the two is_win flags exchanged
win_handlingSwapped(id, pos) ==
    [i \in 0 .. 1 |-> IF i = id THEN << GameEndMsg(FALSE) >>
                      ELSE << OpponentClickMsg(pos), GameEndMsg(TRUE) >>]

\* win handling (handlers.rs 232-235), after OpponentClick was sent
win_handling(id, pos) ==
    [i \in 0 .. 1 |-> IF i = id THEN << GameEndMsg(TRUE) >>
                      ELSE << OpponentClickMsg(pos), GameEndMsg(FALSE) >>]

\* the Click arm with OpponentClick sent to msg_txs[id]
on_clickEcho(boards, target, id, pos) ==
    IF pos[1] >= 5 \/ pos[2] >= 5
    THEN [boards |-> boards, out |-> NoOut, brk |-> TRUE, why |-> "oob"]
    ELSE LET r  == click_tile(boards[id], pos)
             nb == [boards EXCEPT ![id] = [tiles |-> r.tiles, hole |-> r.hole]]
         IN  IF r.panic
             THEN [boards |-> nb, out |-> NoOut, brk |-> TRUE, why |-> "panic"]
             ELSE IF ~r.updated
             THEN [boards |-> nb, out |-> NoOut, brk |-> TRUE, why |-> "noop"]
             ELSE IF ~matches_target(nb[id].tiles, target, FALSE)
             THEN [boards |-> nb,
                   out |-> [NoOut EXCEPT ![id] = << OpponentClickMsg(pos) >>],
                   brk |-> FALSE, why |-> "moved"]
             ELSE [boards |-> nb, out |-> win_handling(id, pos),
                   brk |-> TRUE, why |-> "win"]

\* the Click arm without the bounds check of handlers.rs 215-218
on_clickUnchecked(boards, target, id, pos) ==
    LET r  == click_tile(boards[id], pos)
        nb == [boards EXCEPT ![id] = [tiles |-> r.tiles, hole |-> r.hole]]
        other_id == 1 - id
    IN  IF r.panic
        THEN [boards |-> nb, out |-> NoOut, brk |-> TRUE, why |-> "panic"]
        ELSE IF ~r.updated
        THEN [boards |-> nb, out |-> NoOut, brk |-> TRUE, why |-> "noop"]
        ELSE IF ~matches_target(nb[id].tiles, target, FALSE)
        THEN [boards |-> nb,
              out |-> [NoOut EXCEPT ![other_id] = << OpponentClickMsg(pos) >>],
              brk |-> FALSE, why |-> "moved"]
        ELSE [boards |-> nb, out |-> win_handling(id, pos),
              brk |-> TRUE, why |-> "win"]

\* the arm GameEvent::Message { id, msg: Click { pos } }
on_click(boards, target, id, pos) ==
    IF pos[1] >= 5 \/ pos[2] >= 5
    THEN [boards |-> boards, out |-> NoOut, brk |-> TRUE, why |-> "oob"]
    ELSE LET r  == click_tile(boards[id], pos)
             nb == [boards EXCEPT ![id] = [tiles |-> r.tiles, hole |-> r.hole]]
             other_id == 1 - id
         IN  IF r.panic
             THEN [boards |-> nb, out |-> NoOut, brk |-> TRUE, why |-> "panic"]
             ELSE IF ~r.updated
             THEN [boards |-> nb, out |-> NoOut, brk |-> TRUE, why |-> "noop"]
             ELSE IF ~matches_target(nb[id].tiles, target, FALSE)
             THEN [boards |-> nb,
                   out |-> [NoOut EXCEPT ![other_id] = << OpponentClickMsg(pos) >>],
                   brk |-> FALSE, why |-> "moved"]
             ELSE [boards |-> nb, out |-> win_handling(id, pos),
                   brk |-> TRUE, why |-> "win"]

\* the Disconnected arm with OpponentLeft sent to msg_txs[id]
on_disconnectedToSelf(boards, id) ==
    [boards |-> boards,
     out |-> [NoOut EXCEPT ![id] = << OpponentLeftMsg >>],
     brk |-> TRUE, why |-> "left"]

\* the arm GameEvent::Disconnected { id }
on_disconnected(boards, id) ==
    [boards |-> boards,
     out |-> [NoOut EXCEPT ![1 - id] = << OpponentLeftMsg >>],
     brk |-> TRUE, why |-> "left"]

\* the body of `while let Some(event) = event_rx.recv().await`
on_event(boards, target, ev) ==
    IF ev.t = "Message" THEN on_click(boards, target, ev.id, ev.pos)
    ELSE on_disconnected(boards, ev.id)

\* --------------------------------------------------- ws_loop: one turn
\* The frames ws.next() can yield:
\*   [k |-> "binary", bytes |-> b]   Some(Ok(Message::Binary(b)))
\*   [k |-> "ping"]                  Some(Ok(Message::Ping(_)))
\*   [k |-> "other"]                 Some(Ok(Text | Pong | Close))
\*   [k |-> "err"]                   Some(Err(_))
\*   [k |-> "end"]                   None
BinaryFrame(bytes) == [k |-> "binary", bytes |-> bytes]
PingFrame == [k |-> "ping", bytes |-> << >>]
OtherFrame == [k |-> "other", bytes |-> << >>]
ErrFrame == [k |-> "err", bytes |-> << >>]
EndFrame == [k |-> "end", bytes |-> << >>]

\* The branch `msg = ws.next()`: the event it passes to event_tx.send, if
\* any, and whether the loop breaks; open tells whether that send succeeds.
ws_inbound(id, from, frame, open) ==
    CASE frame.k = "binary" ->
             LET m == deserialize_client(frame.bytes)
             IN  IF ~m.ok THEN [send |-> << >>, brk |-> TRUE]
                 ELSE [send |-> << MessageEv(id, m.pos, from) >>, brk |-> ~open]
      [] frame.k = "ping" -> [send |-> << >>, brk |-> FALSE]
      [] OTHER -> [send |-> << >>, brk |-> TRUE]

\* The branch `msg = msg_rx.recv()`: got is None or Some(msg); write_ok is
\* the outcome of ws.send.  Tells whether the loop breaks.
ws_outbound(got, write_ok) ==
    IF got = None THEN TRUE ELSE ~write_ok

\* ws_loop without the send after the loop
ws_exitSilent(id, from) == << >>

\* What the loop passes to event_tx.send once it has left the loop.
ws_exit(id, from) == << DisconnectedEv(id, from) >>

\* ------------------------------------------------ client: wire encoding
\* bincode of the unit variant ClientMessage::Ping the send loop writes
\* (game.rs 102, 117): the variant index alone.  Click is the other variant,
\* so the index is 0 or 1.
PingPayloads == { <<v>> : v \in 0 .. 1 }

\* bincode of a Target: nine Color variant indices, row by row.
serialize_target(t) == [k \in 1 .. 9 |-> t[(k - 1) \div 3][(k - 1) % 3]]

\* bincode of [[Option<Color>; 5]; 5]: per cell the tag 0, or the tag 1 and
\* the Color variant index.
RECURSIVE serialize_tiles(_, _)
serialize_tiles(tiles, k) ==
    IF k >= GridSize * GridSize THEN << >>
    ELSE LET cell == tiles[k \div GridSize][k % GridSize]
         IN (IF cell = None THEN <<0>> ELSE <<1, cell[1]>>)
                \o serialize_tiles(tiles, k + 1)

\* bincode of the board GameStart carries: the tiles, then the hole.
serialize_board(b) == serialize_tiles(b.tiles, 0) \o <<b.hole[1], b.hole[2]>>

\* bincode::serialize(&ServerMessage) (handlers.rs 274): the variant index
\* in declaration order (types.rs 5-10), then the fields in order.
serialize_server(msg) ==
    CASE msg.t = "GameStart" ->
             <<0>> \o serialize_target(msg.target) \o serialize_board(msg.board)
                   \o serialize_board(msg.opponent_board)
      [] msg.t = "OpponentLeft" -> <<1>>
      [] msg.t = "OpponentClick" -> <<2, msg.pos[1], msg.pos[2]>>
      [] OTHER -> <<3, IF msg.is_win THEN 1 ELSE 0>>

\* A parse state p is [ok, at, v]: whether the bytes read so far decoded, the
\* index of the next byte, and the value decoded.
RECURSIVE parse_tiles(_, _, _)
parse_tiles(bytes, p, k) ==
    IF k >= GridSize * GridSize \/ ~p.ok THEN p
    ELSE IF p.at > Len(bytes) THEN [p EXCEPT !.ok = FALSE]
    ELSE IF bytes[p.at] = 0
    THEN parse_tiles(bytes, [p EXCEPT !.at = @ + 1], k + 1)
    ELSE IF bytes[p.at] = 1 /\ p.at + 1 <= Len(bytes) /\ bytes[p.at + 1] \in Colors
    THEN parse_tiles(bytes,
                     [p EXCEPT !.at = @ + 2,
                               !.v[k \div GridSize][k % GridSize] = Some(bytes[p.at + 1])],
                     k + 1)
    ELSE [p EXCEPT !.ok = FALSE]

parse_board(bytes, at) ==
    LET t == parse_tiles(bytes, [ok |-> TRUE, at |-> at, v |-> EmptyTiles], 0)
    IN  IF ~t.ok \/ t.at + 1 > Len(bytes)
        THEN [ok |-> FALSE, at |-> t.at, v |-> << >>]
        ELSE [ok |-> TRUE, at |-> t.at + 2,
              v |-> [tiles |-> t.v, hole |-> <<bytes[t.at], bytes[t.at + 1]>>]]

parse_target(bytes, at) ==
    IF at + 8 > Len(bytes) \/ \E k \in 0 .. 8 : bytes[at + k] \notin Colors
    THEN [ok |-> FALSE, at |-> at, v |-> << >>]
    ELSE [ok |-> TRUE, at |-> at + 9,
          v |-> [r \in 0 .. 2 |-> [c \in 0 .. 2 |-> bytes[at + 3 * r + c]]]]

\* bincode::deserialize::<ServerMessage> (game.rs 185); bytes after the value
\* are allowed.
deserialize_server(bytes) ==
    LET bad == [ok |-> FALSE, msg |-> << >>]
    IN  IF Len(bytes) = 0 THEN bad
        ELSE CASE bytes[1] = 0 ->
                      LET t == parse_target(bytes, 2)
                          b == IF t.ok THEN parse_board(bytes, t.at) ELSE t
                          o == IF b.ok THEN parse_board(bytes, b.at) ELSE b
                      IN  IF o.ok
                          THEN [ok |-> TRUE, msg |-> GameStartMsg(t.v, b.v, o.v)]
                          ELSE bad
               [] bytes[1] = 1 -> [ok |-> TRUE, msg |-> OpponentLeftMsg]
               [] bytes[1] = 2 ->
                      IF Len(bytes) >= 3
                      THEN [ok |-> TRUE, msg |-> OpponentClickMsg(<<bytes[2], bytes[3]>>)]
                      ELSE bad
               [] bytes[1] = 3 ->
                      IF Len(bytes) >= 2 /\ bytes[2] \in 0 .. 1
                      THEN [ok |-> TRUE, msg |-> GameEndMsg(bytes[2] = 1)]
                      ELSE bad
               [] OTHER -> bad

\* --------------------------------------------- client: Game (game.rs 44-215)
\* State: the variant, and is_win of GameEnd (FALSE for the other variants).
StateOf(s) == [s |-> s, is_win |-> FALSE]
GameEndState(is_win) == [s |-> "GameEnd", is_win |-> is_win]

\* State::is_end
is_end(st) == st.s \in { "GameEnd", "OpponentLeft", "ConnectionError" }

\* ClientMessage values on the client's msg channel and on its connection.
ClickMsg(pos) == [m |-> "Click", pos |-> pos]
PingMsg == [m |-> "Ping", pos |-> << >>]

\* The component's signals and channels once Game() has run: state, target,
\* board, opponent_board (game.rs 63-66); shutdown, whether shutdown_tx was
\* set to None (49-50); msgq, the ClientMessages queued on msg_tx and not yet
\* taken (83); send_st and recv_st, the two spawned loops; panic, the message
\* of a failed expect/unwrap/index; wrote, the messages passed to tx.send so
\* far.
NewClient ==
    [state |-> StateOf("WaitingForOpponent"), target |-> None, board |-> None,
     opponent_board |-> None, shutdown |-> FALSE, msgq |-> << >>,
     send_st |-> "running", recv_st |-> "running", panic |-> "", wrote |-> << >>]

\* do_shutdown that keeps shutdown_tx
do_shutdownKeepsSender(c) == c

\* do_shutdown (game.rs 50)
do_shutdown(c) == [c EXCEPT !.shutdown = TRUE]

AsBoard(r) == [locations |-> r.locations, tiles |-> r.tiles, hole |-> r.hole]

\* handle_server_message with the GameStart arm taken in every state
handle_server_messageAnyStart(c, msg) ==
    CASE msg.t = "GameStart" ->
             [c EXCEPT !.target = Some(msg.target),
                       !.board = Some(BoardNew(msg.board)),
                       !.opponent_board = Some(BoardNew(msg.opponent_board)),
                       !.state = StateOf("Playing")]
      [] msg.t = "OpponentLeft" ->
             IF ~is_end(c.state)
             THEN do_shutdown([c EXCEPT !.state = StateOf("OpponentLeft")])
             ELSE c
      [] msg.t = "OpponentClick" ->
             IF c.state /= StateOf("Playing") THEN c
             ELSE IF c.opponent_board = None
             THEN [c EXCEPT !.panic = "playing but no board"]
             ELSE LET r == click_pos(c.opponent_board[1], msg.pos)
                  IN  [c EXCEPT !.opponent_board = Some(AsBoard(r)),
                                !.panic = IF r.panic THEN "click_pos" ELSE @]
      [] OTHER ->
             IF c.state.s \in { "Playing", "WaitGameEnd" }
             THEN do_shutdown([c EXCEPT !.state = GameEndState(msg.is_win)])
             ELSE c

\* handle_server_message (game.rs 127-167)
handle_server_message(c, msg) ==
    CASE msg.t = "GameStart" ->
             IF c.state /= StateOf("WaitingForOpponent") THEN c
             ELSE [c EXCEPT !.target = Some(msg.target),
                            !.board = Some(BoardNew(msg.board)),
                            !.opponent_board = Some(BoardNew(msg.opponent_board)),
                            !.state = StateOf("Playing")]
      [] msg.t = "OpponentLeft" ->
             IF ~is_end(c.state)
             THEN do_shutdown([c EXCEPT !.state = StateOf("OpponentLeft")])
             ELSE c
      [] msg.t = "OpponentClick" ->
             IF c.state /= StateOf("Playing") THEN c
             ELSE IF c.opponent_board = None
             THEN [c EXCEPT !.panic = "playing but no board"]
             ELSE LET r == click_pos(c.opponent_board[1], msg.pos)
                  IN  [c EXCEPT !.opponent_board = Some(AsBoard(r)),
                                !.panic = IF r.panic THEN "click_pos" ELSE @]
      [] OTHER ->
             IF c.state.s \in { "Playing", "WaitGameEnd" }
             THEN do_shutdown([c EXCEPT !.state = GameEndState(msg.is_win)])
             ELSE c

\* The receive loop's branch `msg = rx.next()` (game.rs 173-187).  Frames:
\* EndFrame is None, ErrFrame is Some(Err), OtherFrame is Some(Ok(Text)),
\* BinaryFrame is Some(Ok(Bytes)).
recv_frame(c, frame) ==
    CASE frame.k = "end" -> [c EXCEPT !.recv_st = "exited"]
      [] frame.k = "binary" ->
             LET d == deserialize_server(frame.bytes)
             IN  IF ~d.ok
                 THEN [c EXCEPT !.recv_st = "panicked", !.panic = "failed to deserialize"]
                 ELSE LET h == handle_server_message(c, d.msg)
                      IN  IF h.panic /= "" THEN [h EXCEPT !.recv_st = "panicked"] ELSE h
      [] OTHER ->
             do_shutdown([c EXCEPT !.state = StateOf("ConnectionError"),
                                   !.recv_st = "exited"])

\* handle_click with the state test left out
handle_clickAnyState(c, idx) ==
    IF c.board = None THEN [c EXCEPT !.panic = "playing but no board"]
    ELSE LET board == c.board[1]
             pos   == board.locations[idx]
             r     == click_pos(board, pos)
             moved == [c EXCEPT !.board = Some(AsBoard(r))]
         IN  IF r.panic THEN [moved EXCEPT !.panic = "click_pos"]
             ELSE IF ~r.updated THEN moved
             ELSE LET queued == IF c.send_st = "running"
                                THEN [moved EXCEPT !.msgq = Append(@, ClickMsg(pos))]
                                ELSE moved
                  IN  IF c.target = None
                      THEN [queued EXCEPT !.panic = "playing but no target"]
                      ELSE IF matches_target(r.tiles, c.target[1], TRUE)
                      THEN [queued EXCEPT !.state = StateOf("WaitGameEnd")]
                      ELSE queued

\* handle_click sending the position the tile has after the slide
handle_clickStalePos(c, idx) ==
    IF c.state /= StateOf("Playing") THEN c
    ELSE IF c.board = None THEN [c EXCEPT !.panic = "playing but no board"]
    ELSE LET board == c.board[1]
             pos   == board.locations[idx]
             r     == click_pos(board, pos)
             moved == [c EXCEPT !.board = Some(AsBoard(r))]
         IN  IF r.panic THEN [moved EXCEPT !.panic = "click_pos"]
             ELSE IF ~r.updated THEN moved
             ELSE LET queued == IF c.send_st = "running"
                                THEN [moved EXCEPT
                                        !.msgq = Append(@, ClickMsg(r.locations[idx]))]
                                ELSE moved
                  IN  IF c.target = None
                      THEN [queued EXCEPT !.panic = "playing but no target"]
                      ELSE IF matches_target(r.tiles, c.target[1], TRUE)
                      THEN [queued EXCEPT !.state = StateOf("WaitGameEnd")]
                      ELSE queued

\* handle_click (game.rs 195-215); msg_tx.send fails, and queues nothing,
\* once the send loop has dropped msg_rx.
handle_click(c, idx) ==
    IF c.state /= StateOf("Playing") THEN c
    ELSE IF c.board = None THEN [c EXCEPT !.panic = "playing but no board"]
    ELSE LET board == c.board[1]
             pos   == board.locations[idx]
             r     == click_pos(board, pos)
             moved == [c EXCEPT !.board = Some(AsBoard(r))]
         IN  IF r.panic THEN [moved EXCEPT !.panic = "click_pos"]
             ELSE IF ~r.updated THEN moved
             ELSE LET queued == IF c.send_st = "running"
                                THEN [moved EXCEPT !.msgq = Append(@, ClickMsg(pos))]
                                ELSE moved
                  IN  IF c.target = None
                      THEN [queued EXCEPT !.panic = "playing but no target"]
                      ELSE IF matches_target(r.tiles, c.target[1], TRUE)
                      THEN [queued EXCEPT !.state = StateOf("WaitGameEnd")]
                      ELSE queued

\* send_msg (game.rs 96-108): one call of tx.send, and what its failure does.
send_msg(c, msg, write_ok) ==
    LET w == [c EXCEPT !.wrote = Append(@, msg)]
    IN  IF write_ok THEN w
        ELSE do_shutdown([w EXCEPT !.state = StateOf("ConnectionError")])

\* The send loop's select! (game.rs 110-123), one ready branch taken:
\* "msg" with a message queued, "ping" at a tick of the interval, "shutdown"
\* once shutdown_tx is gone.
send_turn(c, branch, write_ok) ==
    CASE branch = "msg" -> send_msg([c EXCEPT !.msgq = Tail(@)], Head(c.msgq), write_ok)
      [] branch = "ping" -> send_msg(c, PingMsg, write_ok)
      [] OTHER -> [c EXCEPT !.send_st = "exited", !.msgq = << >>]

\* ------------------------------------------------------------------ state
VARIABLES
    sb,      \* a server-side Board: [tiles, hole]
    cb,      \* the client-side Board built from it: [locations, tiles, hole]
    blast,   \* the last call on them: position, both results, both boards before
    bn,      \* calls made so far
    lobby,   \* lobby_loop's locals: msg_txs, free_ids, the event channel it reads
    conn,    \* per accepted websocket: its ws_loop task and its outbound channel
    chan,    \* the GameEvent channels: queue, and whether the receiver is alive
    game     \* per spawned game_loop: its channels, target, boards, and progress
             \* (sent: what it passed to each player's sender, nproc: events
             \* taken, last: the last one, why: how its handling ended)
    ,
    client,  \* one client's Game component (see NewClient)
    shadow   \* about that client: auth, the board the server holds for it
             \* once it applied the positions the client's board slid at;
             \* the frames taken, clicks made and ticks seen so far; input,
             \* the frame taken or tile clicked last (see FrameTag); tick, the
             \* parity of the ticks that came after the first MaxPings
    ,
    gen      \* one run of a generator: of generate_target slot by slot (its
             \* locals g, and the attempts discarded), or of Board::generate
             \* on the shuffle outcome of a seed

boardVars == <<sb, cb, blast, bn>>
sysVars == <<lobby, conn, chan, game>>
clientVars == <<client, shadow>>
genVars == <<gen>>
vars == <<sb, cb, blast, bn, lobby, conn, chan, game, client, shadow, gen>>

\* Websockets accepted over a run, event channels and game loops they need.
ConnIds == 1 .. MaxConns
ChanIds == 1 .. (MaxConns \div 2 + 1)
GameIds == 1 .. (MaxConns \div 2)

\* No sender / no connection in a slot (Option::None of msg_txs).
NoConn == 0

IdleConn == [st |-> "none", id |-> 0, ch |-> 1, rxq |-> << >>, tx_alive |-> FALSE,
             nmsg |-> 0, emitted |-> << >>]
IdleGame == [st |-> "none", rx |-> 1, txs |-> [i \in 0 .. 1 |-> NoConn],
             target |-> DefaultTarget,
             boards |-> [i \in 0 .. 1 |-> [tiles |-> EmptyTiles, hole |-> <<2, 2>>]],
             sent |-> NoOut, nproc |-> 0, why |-> "", last |-> << >>]

\* ------------------------------------------- board-engine specification
NoCall == [pos |-> << >>, s_ret |-> FALSE, c_ret |-> FALSE,
           s_panic |-> FALSE, c_panic |-> FALSE,
           sb0 |-> generate(BaseColors), cb0 |-> BoardNew(generate(BaseColors))]

SysIdle ==
    /\ lobby = [st |-> "running", msg_txs |-> [i \in 0 .. 1 |-> NoConn],
                free_ids |-> <<0, 1>>, cur |-> 1, accepted |-> 0]
    /\ conn = [k \in ConnIds |-> IdleConn]
    /\ chan = [c \in ChanIds |-> [q |-> << >>, open |-> c = 1]]
    /\ game = [g \in GameIds |-> IdleGame]

NewShadow == [auth |-> generate(BaseColors), nrecv |-> 0, nclick |-> 0, nping |-> 0,
              input |-> [tag |-> "", idx |-> 0], tick |-> FALSE]

ClientIdle ==
    /\ client = NewClient
    /\ shadow = NewShadow

\* generate_target's locals on entry: target = Default::default(), and the
\* counts the first pass of 'retry makes.
NewTargetRun == [target |-> DefaultTarget, counts |-> ZeroCounts, k |-> 0]
NewGen == [mode |-> "idle", g |-> NewTargetRun, retries |-> 0, seed |-> 0,
           board |-> None]

GenIdle == gen = NewGen

BoardIdle ==
    /\ sb = generate(BaseColors)
    /\ cb = BoardNew(generate(BaseColors))
    /\ blast = NoCall
    /\ bn = 0

BoardInit ==
    /\ \E s \in 0 .. MaxSeed :
        /\ sb = generate(Shuffle(s))
        /\ cb = BoardNew(generate(Shuffle(s)))
        /\ blast = [NoCall EXCEPT !.sb0 = generate(Shuffle(s)),
                                  !.cb0 = BoardNew(generate(Shuffle(s)))]
        /\ bn = 0
    /\ SysIdle
    /\ ClientIdle
    /\ GenIdle

\* One click at an in-bounds position, applied to the server board with
\* click_tile and to the client board with click_pos.
BoardClick(p) ==
    /\ bn < MaxBoardClicks
    /\ LET rs == click_tile(sb, p)
           rc == click_pos(cb, p)
       IN  /\ sb' = [tiles |-> rs.tiles, hole |-> rs.hole]
           /\ cb' = [locations |-> rc.locations, tiles |-> rc.tiles, hole |-> rc.hole]
           /\ blast' = [pos |-> p, s_ret |-> rs.updated, c_ret |-> rc.updated,
                        s_panic |-> rs.panic, c_panic |-> rc.panic,
                        sb0 |-> sb, cb0 |-> cb]
    /\ bn' = bn + 1
    /\ UNCHANGED <<sysVars, clientVars, genVars>>

BoardNext == \E p \in Cells : BoardClick(p)

SpecBoard == BoardInit /\ [][BoardNext]_vars

\* ------------------------------------------------------ ws_loop (actions)
\* What a turn of connection k's loop does to the channels: `send` are the
\* events passed to event_tx.send inside the loop, brk whether the loop is
\* left (then Disconnected is sent and the task ends, dropping msg_rx).
WsTurn(k, rxq, send, brk) ==
    LET c    == conn[k].ch
        evs  == send \o (IF brk THEN ws_exit(conn[k].id, k) ELSE << >>)
        open == chan[c].open
    IN  /\ chan' = IF open THEN [chan EXCEPT ![c].q = @ \o evs] ELSE chan
        /\ conn' = [conn EXCEPT
                      ![k].emitted = @ \o [i \in 1 .. Len(evs) |->
                                              [t |-> evs[i].t, id |-> evs[i].id, ok |-> open]],
                      ![k].nmsg = @ + Len(send),
                      ![k].st = IF brk THEN "exited" ELSE @,
                      ![k].rxq = IF brk THEN << >> ELSE rxq]
        /\ UNCHANGED <<lobby, game>>
        /\ UNCHANGED <<boardVars, clientVars, genVars>>

\* Message events passed on so far by the connections writing to channel c.
RECURSIVE SumMsgs(_, _)
SumMsgs(c, k) ==
    IF k = 0 THEN 0
    ELSE (IF conn[k].st /= "none" /\ conn[k].ch = c THEN conn[k].nmsg ELSE 0)
         + SumMsgs(c, k - 1)
ChanMsgs(c) == SumMsgs(c, MaxConns)

\* select! branch `msg = ws.next()`
WsInbound(k, frame) ==
    /\ conn[k].st = "running"
    /\ LET r == ws_inbound(conn[k].id, k, frame, chan[conn[k].ch].open)
       IN  /\ ChanMsgs(conn[k].ch) + Len(r.send) <= MaxMsgs
           /\ WsTurn(k, conn[k].rxq, r.send, r.brk)

\* select! branch `msg = msg_rx.recv()`: ready with Some(msg) when a message
\* is queued, with None when the queue is empty and every sender is gone.
WsOutbound(k, write_ok) ==
    /\ conn[k].st = "running"
    /\ conn[k].rxq /= << >> \/ ~conn[k].tx_alive
    /\ LET got == IF conn[k].rxq /= << >> THEN Some(Head(conn[k].rxq)) ELSE None
           rest == IF conn[k].rxq /= << >> THEN Tail(conn[k].rxq) ELSE << >>
       IN  WsTurn(k, rest, << >>, ws_outbound(got, write_ok))

\* --------------------------------------------------- lobby_loop (actions)
\* the event branch without free_ids.push(id)
lobby_eventNoPush(msg_txs, free_ids, ev) ==
    [msg_txs |-> [msg_txs EXCEPT ![ev.id] = NoConn],
     free_ids |-> free_ids]

\* select! branch `event = event_rx.recv()` (handlers.rs 46-59)
lobby_event(msg_txs, free_ids, ev) ==
    [msg_txs |-> [msg_txs EXCEPT ![ev.id] = NoConn],
     free_ids |-> Append(free_ids, ev.id)]

\* the accept branch without the reset of msg_txs and free_ids once the
\* pair is handed over
lobby_acceptNoReset(msg_txs, free_ids, k) ==
    IF free_ids = << >>
    THEN [panic |-> "no ids left", id |-> 0, spawned_ws |-> FALSE,
          msg_txs |-> msg_txs, free_ids |-> free_ids,
          spawn_game |-> FALSE, full_msg_txs |-> msg_txs]
    ELSE LET id   == free_ids[Len(free_ids)]
             rest == SubSeq(free_ids, 1, Len(free_ids) - 1)
             txs  == [msg_txs EXCEPT ![id] = k]
         IN  [panic |-> IF rest = << >> /\ (\E i \in 0 .. 1 : txs[i] = NoConn)
                        THEN "msg_tx is None" ELSE "",
              id |-> id, spawned_ws |-> TRUE, msg_txs |-> txs, free_ids |-> rest,
              spawn_game |-> rest = << >> /\ (\A i \in 0 .. 1 : txs[i] /= NoConn),
              full_msg_txs |-> txs]

\* select! branch `ws = ws_rx.recv()` with Some(ws) (handlers.rs 60-79); k
\* names the new websocket.  panic is the message of the expect that failed.
lobby_accept(msg_txs, free_ids, k) ==
    IF free_ids = << >>
    THEN [panic |-> "no ids left", id |-> 0, spawned_ws |-> FALSE,
          msg_txs |-> msg_txs, free_ids |-> free_ids,
          spawn_game |-> FALSE, full_msg_txs |-> msg_txs]
    ELSE LET id   == free_ids[Len(free_ids)]
             rest == SubSeq(free_ids, 1, Len(free_ids) - 1)
             txs  == [msg_txs EXCEPT ![id] = k]
         IN  IF rest /= << >>
             THEN [panic |-> "", id |-> id, spawned_ws |-> TRUE,
                   msg_txs |-> txs, free_ids |-> rest,
                   spawn_game |-> FALSE, full_msg_txs |-> txs]
             ELSE IF \E i \in 0 .. 1 : txs[i] = NoConn
             THEN [panic |-> "msg_tx is None", id |-> id, spawned_ws |-> TRUE,
                   msg_txs |-> [i \in 0 .. 1 |-> NoConn], free_ids |-> rest,
                   spawn_game |-> FALSE, full_msg_txs |-> txs]
             ELSE [panic |-> "", id |-> id, spawned_ws |-> TRUE,
                   msg_txs |-> [i \in 0 .. 1 |-> NoConn], free_ids |-> <<0, 1>>,
                   spawn_game |-> TRUE, full_msg_txs |-> txs]

LobbyEvent ==
    /\ lobby.st = "running"
    /\ chan[lobby.cur].q /= << >>
    /\ LET ev == Head(chan[lobby.cur].q)
           r  == lobby_event(lobby.msg_txs, lobby.free_ids, ev)
           k  == lobby.msg_txs[ev.id]
       IN  /\ lobby' = [lobby EXCEPT !.msg_txs = r.msg_txs, !.free_ids = r.free_ids]
           /\ chan' = [chan EXCEPT ![lobby.cur].q = Tail(@)]
           \* the sender stored in the slot, if any, is dropped
           /\ conn' = IF k /= NoConn THEN [conn EXCEPT ![k].tx_alive = FALSE] ELSE conn
    /\ UNCHANGED game
    /\ UNCHANGED <<boardVars, clientVars, genVars>>

LobbyAccept ==
    /\ lobby.st = "running"
    /\ lobby.accepted < MaxConns
    /\ LET k == lobby.accepted + 1
           r == lobby_accept(lobby.msg_txs, lobby.free_ids, k)
           c == lobby.cur
           overwritten == IF r.spawned_ws THEN lobby.msg_txs[r.id] ELSE NoConn
           \* a panic unwinds lobby_loop: its senders and its receiver drop
           dropped == { overwritten } \cup
                      (IF r.panic /= "" THEN { r.full_msg_txs[i] : i \in 0 .. 1 } ELSE {})
       IN  /\ lobby' = [lobby EXCEPT
                          !.st = IF r.panic /= "" THEN r.panic ELSE @,
                          !.msg_txs = r.msg_txs,
                          !.free_ids = r.free_ids,
                          !.cur = IF r.spawn_game THEN c + 1 ELSE @,
                          !.accepted = k]
           /\ conn' = [j \in ConnIds |->
                         IF j = k /\ r.spawned_ws
                         THEN [IdleConn EXCEPT !.st = "running", !.id = r.id, !.ch = c,
                                               !.tx_alive = r.panic = ""]
                         ELSE IF j \in dropped
                         THEN [conn[j] EXCEPT !.tx_alive = FALSE]
                         ELSE conn[j]]
           /\ chan' = IF r.spawn_game
                      THEN [chan EXCEPT ![c + 1] = [q |-> << >>, open |-> TRUE]]
                      ELSE IF r.panic /= ""
                      THEN [chan EXCEPT ![c].open = FALSE]
                      ELSE chan
           /\ game' = IF r.spawn_game
                      THEN [game EXCEPT ![c] = [IdleGame EXCEPT !.st = "spawned",
                                                                !.rx = c,
                                                                !.txs = r.full_msg_txs]]
                      ELSE game
    /\ UNCHANGED <<boardVars, clientVars, genVars>>

\* ---------------------------------------------------- game_loop (actions)
\* UnboundedSender::send of each of msgs[i] to player i's connection: it
\* fails, and the message is lost, once that connection's ws_loop has ended.
Deliver(cn, txs, msgs) ==
    [j \in ConnIds |->
        IF cn[j].st /= "running" THEN cn[j]
        ELSE [cn[j] EXCEPT !.rxq = @ \o (IF txs[0] = j THEN msgs[0] ELSE << >>)
                                     \o (IF txs[1] = j THEN msgs[1] ELSE << >>)]]

\* GameStart with board and opponent_board exchanged
game_startSwapped(target, boards) ==
    [id \in 0 .. 1 |-> << GameStartMsg(target, boards[1 - id], boards[id]) >>]

\* The GameStart messages (handlers.rs 201-207)
game_start(target, boards) ==
    [id \in 0 .. 1 |-> << GameStartMsg(target, boards[id], boards[1 - id]) >>]

\* handlers.rs 198-207: the target is generated from the draws d, the two
\* boards from the shuffle outcomes of seeds s and s + 1, and GameStart is
\* sent to both players.
GameBegin(g, d, s) ==
    /\ game[g].st = "spawned"
    /\ generate_target(d).done
    /\ LET target == generate_target(d).target
           boards == [i \in 0 .. 1 |->
                         generate(Shuffle(s + i))]
           out    == game_start(target, boards)
       IN  /\ game' = [game EXCEPT ![g].st = "running", ![g].target = target,
                                   ![g].boards = boards,
                                   ![g].sent = [i \in 0 .. 1 |-> BriefAll(out[i])]]
           /\ conn' = Deliver(conn, game[g].txs, out)
    /\ UNCHANGED <<lobby, chan>>
    /\ UNCHANGED <<boardVars, clientVars, genVars>>

\* One iteration of the while loop (handlers.rs 209-243).  Leaving the loop
\* ends the task: event_rx and both msg_txs are dropped.
GameEvent(g) ==
    /\ game[g].st = "running"
    /\ chan[game[g].rx].q /= << >>
    /\ LET ev == Head(chan[game[g].rx].q)
           r  == on_event(game[g].boards, game[g].target, ev)
           delivered == Deliver(conn, game[g].txs, r.out)
       IN  /\ game' = [game EXCEPT
                         ![g].boards = r.boards,
                         ![g].sent = [i \in 0 .. 1 |-> @[i] \o BriefAll(r.out[i])],
                         ![g].st = IF r.brk THEN "done" ELSE @,
                         ![g].why = r.why,
                         ![g].nproc = @ + 1,
                         ![g].last = ev]
           /\ chan' = [chan EXCEPT ![game[g].rx].q = Tail(@),
                                   ![game[g].rx].open = ~r.brk]
           /\ conn' = [j \in ConnIds |->
                         IF r.brk /\ (j = game[g].txs[0] \/ j = game[g].txs[1])
                         THEN [delivered[j] EXCEPT !.tx_alive = FALSE]
                         ELSE delivered[j]]
    /\ UNCHANGED lobby
    /\ UNCHANGED <<boardVars, clientVars, genVars>>

\* ------------------------------------------------- session specification
\* One session, from the state lobby_loop leaves when two websockets were
\* accepted in a row: the first took id 1, the second id 0, both write to
\* channel 1, and game_loop 1 was spawned with that channel and their senders.
SessionInit ==
    /\ BoardIdle
    /\ ClientIdle
    /\ GenIdle
    /\ lobby = [st |-> "running", msg_txs |-> [i \in 0 .. 1 |-> NoConn],
                free_ids |-> <<0, 1>>, cur |-> 2, accepted |-> 2]
    /\ conn = [k \in ConnIds |->
                 IF k <= 2
                 THEN [IdleConn EXCEPT !.st = "running", !.id = 2 - k, !.ch = 1,
                                       !.tx_alive = TRUE]
                 ELSE IdleConn]
    /\ chan = [c \in ChanIds |-> [q |-> << >>, open |-> c <= 2]]
    /\ game = [g \in GameIds |->
                 IF g = 1
                 THEN [IdleGame EXCEPT !.st = "spawned", !.rx = 1,
                                       !.txs = [i \in 0 .. 1 |-> 2 - i]]
                 ELSE IdleGame]

\* The positions the two clients click: two slides along row 2 from the
\* initial hole (each one the hole's own cell, so no slide, when clicked a
\* second time), and a position out of bounds in the hole's row.
SessionClicks == { <<2, 0>>, <<2, 1>>, <<2, 5>> }

\* An encoded Click per position, a payload that is no ClientMessage, and
\* the frames that are not Binary.
FramesOf(clicks) ==
    { BinaryFrame(serialize_click(p)) : p \in clicks }
        \cup { BinaryFrame(<<1>>), PingFrame, OtherFrame, ErrFrame, EndFrame }

\* The centre of a grid without its hole in it, as generate_target's draws.
CentreDraws(tiles) == [k \in 1 .. 9 |-> tiles[1 + ((k - 1) \div 3)][1 + ((k - 1) % 3)][1]]

\* Draws whose first attempt is discarded at its fifth White.
RetryDraws == <<0, 0, 0, 0, 0, 1, 1, 1, 1, 2, 2, 2, 2, 3>>

\* Draws that yield the pattern the board of seed s shows once (2, 0) was
\* clicked.
WinDraws(s) == CentreDraws(click_tile(generate(Shuffle(s)), <<2, 0>>).tiles)

\* The draws a session of seeds s and s + 1 is started with: either player's
\* board reaches the pattern by clicking (2, 0), or neither's does.
TargetDraws(s) == { WinDraws(s), WinDraws(s + 1), RetryDraws }

SessionNext ==
    \/ \E g \in GameIds : \E s \in 0 .. MaxSeed : \E d \in TargetDraws(s) :
           GameBegin(g, d, s)
    \/ \E g \in GameIds : GameEvent(g)
    \/ \E k \in ConnIds : \E f \in FramesOf(SessionClicks) : WsInbound(k, f)
    \/ \E k \in ConnIds : \E ok \in BOOLEAN : WsOutbound(k, ok)

SpecSession == SessionInit /\ [][SessionNext]_vars

\* --------------------------------------------------- lobby specification
\* lobby_loop from its start, with the ws_loop of every websocket it accepts
\* and the game_loop of every pair it completes.  Clients send one position.
LobbyInit == BoardIdle /\ SysIdle /\ ClientIdle /\ GenIdle

LobbyClicks == { <<2, 1>> }

LobbyNext ==
    \/ LobbyEvent
    \/ LobbyAccept
    \/ \E g \in GameIds : GameBegin(g, RetryDraws, 0)
    \/ \E g \in GameIds : GameEvent(g)
    \/ \E k \in ConnIds : \E f \in FramesOf(LobbyClicks) : WsInbound(k, f)
    \/ \E k \in ConnIds : \E ok \in BOOLEAN : WsOutbound(k, ok)

SpecLobby == LobbyInit /\ [][LobbyNext]_vars

\* ----------------------------------------------- keepalive specification
\* The server with clients that behave as game.rs does and a transport that
\* never fails: a client writes the keepalive Ping at any time, and a Click
\* only once it took GameStart, for a position its board slides at, with no
\* Click of its own still on the way (handle_click, game.rs 195-206).
\* Websocket Ping frames arrive at any time; every write succeeds.
KeepaliveClicks == { <<2, 1>>, <<2, 3>> }

KeepaliveFrames ==
    { BinaryFrame(serialize_click(p)) : p \in KeepaliveClicks }
        \cup { BinaryFrame(p) : p \in PingPayloads } \cup { PingFrame }

HonestClick(k, pos) ==
    \E g \in GameIds :
        /\ game[g].st = "running"
        /\ game[g].txs[conn[k].id] = k
        /\ conn[k].ch = game[g].rx
        /\ \A n \in 1 .. Len(conn[k].rxq) : conn[k].rxq[n].t /= "GameStart"
        /\ \A n \in 1 .. Len(chan[game[g].rx].q) : chan[game[g].rx].q[n].from /= k
        /\ click_tile(game[g].boards[conn[k].id], pos).updated

KeepaliveInbound(k, frame) ==
    /\ deserialize_client(frame.bytes).ok =>
           HonestClick(k, deserialize_client(frame.bytes).pos)
    /\ WsInbound(k, frame)

KeepaliveNext ==
    \/ LobbyEvent
    \/ LobbyAccept
    \/ \E g \in GameIds : \E d \in { WinDraws(0), RetryDraws } : GameBegin(g, d, 0)
    \/ \E g \in GameIds : GameEvent(g)
    \/ \E k \in ConnIds : \E f \in KeepaliveFrames : KeepaliveInbound(k, f)
    \/ \E k \in ConnIds : WsOutbound(k, TRUE)

SpecKeepalive == LobbyInit /\ [][KeepaliveNext]_vars

\* -------------------------------------------------- client specification
\* One client from the moment Game() has run, its connection open and both
\* loops spawned, against every frame a server may put on that connection.

\* Draws that yield the pattern the client's board of seed s holds in its
\* tiles once it slid the tile at (2, 1).
StaleDraws(s) ==
    LET r == click_pos(BoardNew(generate(Shuffle(s))), <<2, 1>>)
    IN  [k \in 1 .. 9 |-> r.tiles[1 + ((k - 1) \div 3)][1 + ((k - 1) % 3)][1].color]

\* The GameStart messages game_loop sends a player whose board is of seed 0
\* and whose opponent's is of seed 1 (handlers.rs 198-207), with a target
\* generate_target returns.
ClientStarts ==
    { GameStartMsg(generate_target(d).target, generate(Shuffle(0)), generate(Shuffle(1))) :
        d \in { x \in { WinDraws(0), StaleDraws(0) } : generate_target(x).done } }

ServerMsgs ==
    ClientStarts \cup { OpponentLeftMsg, OpponentClickMsg(<<2, 1>>),
                        GameEndMsg(TRUE), GameEndMsg(FALSE) }

\* What rx.next() can yield: a server message encoded, a GameEnd cut short
\* of its flag, a text frame, an error, the end of the stream.
ClientFrames ==
    { BinaryFrame(serialize_server(m)) : m \in ServerMsgs }
        \cup { BinaryFrame(<<3>>), OtherFrame, ErrFrame, EndFrame }

\* The tiles a user clicks, by index: those that start at (0, 0), (2, 0)
\* and (2, 1).
ClientClicks == { 0, 10, 11 }

\* What a frame is to the receive loop: the variant it decodes to, or why
\* it is none.
FrameTag(frame) ==
    IF frame.k /= "binary" THEN frame.k
    ELSE IF deserialize_server(frame.bytes).ok
    THEN deserialize_server(frame.bytes).msg.t
    ELSE "undecodable"

\* select! branch `msg = rx.next()` of the receive loop
ClientRecv(frame) ==
    /\ client.recv_st = "running"
    /\ shadow.nrecv < MaxFrames
    /\ client' = recv_frame(client, frame)
    /\ shadow' = [shadow EXCEPT
                    !.nrecv = @ + 1,
                    !.input = [tag |-> FrameTag(frame), idx |-> 0],
                    !.auth = IF    client.state = StateOf("WaitingForOpponent")
                                /\ client'.state = StateOf("Playing")
                             THEN deserialize_server(frame.bytes).msg.board
                             ELSE @]
    /\ UNCHANGED <<boardVars, sysVars, genVars>>

\* select! branch `_ = recv_shutdown.recv()` of the receive loop (game.rs
\* 188-190): ready once shutdown_tx is gone.
recv_shutdown(c) == [c EXCEPT !.recv_st = "exited"]

ClientRecvShutdown ==
    /\ client.recv_st = "running"
    /\ client.shutdown
    /\ client' = recv_shutdown(client)
    /\ UNCHANGED shadow
    /\ UNCHANGED <<boardVars, sysVars, genVars>>

\* on:click of tile idx.  The server applies every position the board slid at.
ClientClick(idx) ==
    /\ shadow.nclick < MaxLocalClicks
    /\ client' = handle_click(client, idx)
    /\ shadow' = [shadow EXCEPT
                    !.nclick = @ + 1,
                    !.input = [tag |-> "click", idx |-> idx],
                    !.auth = IF client'.board /= client.board /\ client.board /= None
                             THEN LET r == click_tile(@, client'.board[1].hole)
                                  IN  [tiles |-> r.tiles, hole |-> r.hole]
                             ELSE @]
    /\ UNCHANGED <<boardVars, sysVars, genVars>>

\* select! branch `msg = msg_rx.recv()` of the send loop
ClientSendMsg(write_ok) ==
    /\ client.send_st = "running"
    /\ client.msgq /= << >>
    /\ client' = send_turn(client, "msg", write_ok)
    /\ UNCHANGED shadow
    /\ UNCHANGED <<boardVars, sysVars, genVars>>

\* select! branch `_ = ping_interval.tick()` of the send loop
ClientPing(write_ok) ==
    /\ client.send_st = "running"
    /\ shadow.nping < MaxPings
    /\ client' = send_turn(client, "ping", write_ok)
    /\ shadow' = [shadow EXCEPT !.nping = @ + 1]
    /\ UNCHANGED <<boardVars, sysVars, genVars>>

\* select! branch `_ = send_shutdown.recv()` of the send loop
ClientSendShutdown ==
    /\ client.send_st = "running"
    /\ client.shutdown
    /\ client' = send_turn(client, "shutdown", TRUE)
    /\ UNCHANGED shadow
    /\ UNCHANGED <<boardVars, sysVars, genVars>>

\* onbeforeunload: the callback is do_shutdown (game.rs 54-56)
ClientUnload ==
    /\ ~client.shutdown
    /\ client' = do_shutdown(client)
    /\ UNCHANGED shadow
    /\ UNCHANGED <<boardVars, sysVars, genVars>>

ClientInit == BoardIdle /\ SysIdle /\ ClientIdle /\ GenIdle

ClientNext ==
    \/ \E f \in ClientFrames : ClientRecv(f)
    \/ ClientRecvShutdown
    \/ \E idx \in ClientClicks : ClientClick(idx)
    \/ \E ok \in BOOLEAN : ClientSendMsg(ok)
    \/ \E ok \in BOOLEAN : ClientPing(ok)
    \/ ClientSendShutdown
    \/ ClientUnload

SpecClient == ClientInit /\ [][ClientNext]_vars

\* The same client with its tasks scheduled: a spawned loop whose select!
\* has a ready branch runs it (the queued message, the tick of the
\* interval, the closed shutdown channel).  What the connection yields and
\* whether a write succeeds stay with the environment.
\* The interval keeps ticking for as long as the send loop runs: a tick
\* after the first MaxPings makes the loop write one more Ping, which the
\* record of writes leaves out.
ClientPingAgain(write_ok) ==
    /\ client.send_st = "running"
    /\ shadow.nping = MaxPings
    /\ client' = [send_turn(client, "ping", write_ok) EXCEPT !.wrote = client.wrote]
    /\ shadow' = [shadow EXCEPT !.tick = ~@]
    /\ UNCHANGED <<boardVars, sysVars, genVars>>

ClientLiveNext ==
    \/ ClientNext
    \/ \E ok \in BOOLEAN : ClientPingAgain(ok)

ClientFairness ==
    /\ WF_vars(ClientRecvShutdown)
    /\ WF_vars(ClientSendShutdown)
    /\ WF_vars(\E ok \in BOOLEAN : ClientSendMsg(ok))
    /\ WF_vars(\E ok \in BOOLEAN : ClientPing(ok) \/ ClientPingAgain(ok))

SpecClientLive == ClientInit /\ [][ClientLiveNext]_vars /\ ClientFairness

\* ------------------------------------------------- board-engine properties
\* p is not the hole h and shares its row or its column.
Aligned(p, h) == p /= h /\ (p[1] = h[1] \/ p[2] = h[2])

Sgn(x) == IF x > 0 THEN 1 ELSE IF x < 0 THEN 0 - 1 ELSE 0

\* The neighbour of cell q one step closer to p.
Toward(q, p) == <<q[1] + Sgn(p[1] - q[1]), q[2] + Sgn(p[2] - q[2])>>

Between(x, a, b) == (a <= x /\ x <= b) \/ (b <= x /\ x <= a)

\* q lies on the row or column segment from h to p, ends included.
OnSegment(q, h, p) ==
    \/ h[1] = p[1] /\ q[1] = p[1] /\ Between(q[2], h[2], p[2])
    \/ h[2] = p[2] /\ q[2] = p[2] /\ Between(q[1], h[1], p[1])

Called == blast.pos /= << >>

\* C1: a click_tile at an in-bounds position p that is not the hole h and
\* shares its row or column returns true; afterwards the hole is p, cell p is
\* empty, every other cell of the segment from h to p holds what its
\* neighbour one step closer to p held before, and every cell off the
\* segment is unchanged.
C1_SlideShiftsSegment ==
    (Called /\ Aligned(blast.pos, blast.sb0.hole)) =>
        LET p   == blast.pos
            h   == blast.sb0.hole
            old == blast.sb0.tiles
        IN  /\ blast.s_ret
            /\ ~blast.s_panic
            /\ sb.hole = p
            /\ sb.tiles[p[1]][p[2]] = None
            /\ \A q \in Cells :
                   q /= p =>
                       IF OnSegment(q, h, p)
                       THEN sb.tiles[q[1]][q[2]] =
                                old[Toward(q, p)[1]][Toward(q, p)[2]]
                       ELSE sb.tiles[q[1]][q[2]] = old[q[1]][q[2]]

\* C1 witness: a slide over four cells from a hole that earlier slides moved
\* into a corner column.
C1_Witness ==
    /\ Called
    /\ blast.s_ret
    /\ blast.sb0.hole = <<4, 0>>
    /\ blast.pos = <<4, 4>>

\* C1, the scenario of the specification: hole (2,2), click (2,0).
C1_Scenario ==
    /\ Called
    /\ blast.sb0.hole = <<2, 2>>
    /\ blast.pos = <<2, 0>>

\* C2: a click at an in-bounds position that shares neither row nor column
\* with the hole, or that is the hole, returns false on the server board
\* (click_tile) and on the client board (click_pos), and leaves tiles, hole
\* and the client's locations unchanged.
C2_NoOpClickChangesNothing ==
    /\ (Called /\ ~Aligned(blast.pos, blast.sb0.hole)) =>
           /\ ~blast.s_ret
           /\ ~blast.s_panic
           /\ sb = blast.sb0
    /\ (Called /\ ~Aligned(blast.pos, blast.cb0.hole)) =>
           /\ ~blast.c_ret
           /\ ~blast.c_panic
           /\ cb = blast.cb0

\* C2 witness: a click on the hole itself, after two slides took the hole
\* away from the centre.
C2_Witness ==
    /\ Called
    /\ bn = 3
    /\ blast.pos = blast.sb0.hole
    /\ blast.pos = blast.cb0.hole
    /\ blast.pos[1] /= 2
    /\ blast.pos[2] /= 2
    /\ ~blast.s_ret
    /\ ~blast.c_ret

\* The 3x3 region matches_target reads, and the target that region of a
\* grid spells (color d where the region is empty).
Centre == (1 .. 3) \X (1 .. 3)
CentreOr(tiles, d) ==
    [r \in 0 .. 2 |-> [c \in 0 .. 2 |->
        IF tiles[r + 1][c + 1] = None THEN d ELSE tiles[r + 1][c + 1][1]]]
C21Targets(tiles) ==
    { CentreOr(tiles, 0),
      [CentreOr(tiles, 0) EXCEPT ![1][1] = (@ + 1) % ColorCount],
      DefaultTarget }

\* C21: matches_target is true exactly when every cell (r+1, c+1), r and c
\* in 0..2, is occupied and of color target[r][c], on a server board and on
\* a client board; no cell outside rows 1..3 and columns 1..3 influences
\* the result, and an empty cell inside makes it false.
C21_MatchesTargetReadsCentre ==
    \A t \in C21Targets(sb.tiles) :
        /\ matches_target(sb.tiles, t, FALSE) <=>
               \A q \in Centre : sb.tiles[q[1]][q[2]] = Some(t[q[1] - 1][q[2] - 1])
        /\ matches_target(cb.tiles, t, TRUE) <=>
               \A q \in Centre :
                   /\ cb.tiles[q[1]][q[2]] /= None
                   /\ cb.tiles[q[1]][q[2]][1].color = t[q[1] - 1][q[2] - 1]
        /\ \A q \in Cells \ Centre :
               \A v \in { None, Some(0), Some(ColorCount - 1) } :
                   matches_target([sb.tiles EXCEPT ![q[1]][q[2]] = v], t, FALSE)
                       = matches_target(sb.tiles, t, FALSE)
        /\ \A q \in Centre :
               ~matches_target([sb.tiles EXCEPT ![q[1]][q[2]] = None], t, FALSE)

\* C21 witness: a slide took the hole out of the region, the board now
\* matches the target its region spells and did not before the slide.
C21_Witness ==
    /\ Called
    /\ sb.hole \notin Centre
    /\ matches_target(sb.tiles, CentreOr(sb.tiles, 0), FALSE)
    /\ ~matches_target(blast.sb0.tiles, CentreOr(sb.tiles, 0), FALSE)

\* C22 as stated: in a successful slide every tile strictly between the
\* hole and the clicked cell moves one cell toward the clicked cell, the
\* clicked cell becomes empty and the hole moves to the clicked cell.
C22_TilesShiftTowardClicked ==
    (Called /\ Aligned(blast.pos, blast.sb0.hole)) =>
        LET p   == blast.pos
            h   == blast.sb0.hole
            old == blast.sb0.tiles
        IN  /\ blast.s_ret
            /\ sb.hole = p
            /\ sb.tiles[p[1]][p[2]] = None
            /\ \A q \in Cells :
                   (OnSegment(q, h, p) /\ q /= h /\ q /= p) =>
                       sb.tiles[Toward(q, p)[1]][Toward(q, p)[2]] = old[q[1]][q[2]]

\* C22 amended: in a successful slide the clicked tile and every tile
\* strictly between it and the hole move one cell toward the old hole, the
\* clicked cell becomes empty and the hole moves to the clicked cell, along
\* a row and along a column alike.
C22_TilesShiftTowardHole ==
    (Called /\ Aligned(blast.pos, blast.sb0.hole)) =>
        LET p   == blast.pos
            h   == blast.sb0.hole
            old == blast.sb0.tiles
        IN  /\ blast.s_ret
            /\ sb.hole = p
            /\ sb.tiles[p[1]][p[2]] = None
            /\ \A q \in Cells :
                   (OnSegment(q, h, p) /\ q /= h) =>
                       sb.tiles[Toward(q, h)[1]][Toward(q, h)[2]] = old[q[1]][q[2]]

\* C22 witness: a slide down a column over two cells, from the hole of a
\* fresh board.
C22_Witness ==
    /\ Called
    /\ blast.s_ret
    /\ blast.sb0.hole = <<2, 2>>
    /\ blast.pos = <<4, 2>>
    /\ sb.tiles[3][2] = blast.sb0.tiles[4][2]

\* The tile indices of a client board, and the cell locations[idx] of it.
TileIds == 0 .. (TileCount - 1)
TileAt(b, idx) == b.tiles[b.locations[idx][1]][b.locations[idx][2]]

\* C32: on a client board, after Board::new and after every click_pos, the
\* cell at locations[idx] holds the tile of index idx for each idx in
\* 0..23, the 24 locations are pairwise distinct and none is the hole;
\* Board::new numbers the occupied cells of its input in row-major order
\* with their colors, and no click_pos changes the color of an index.
C32_LocationsTrackTiles ==
    /\ [](\A idx \in TileIds :
            /\ cb.locations[idx] \in Cells
            /\ TileAt(cb, idx) /= None
            /\ TileAt(cb, idx)[1].idx = idx
            /\ cb.locations[idx] /= cb.hole
            /\ \A other \in TileIds :
                   other /= idx => cb.locations[other] /= cb.locations[idx])
    /\ [](bn = 0 =>
            \A idx \in TileIds :
                LET loc == cb.locations[idx]
                IN  /\ Some(TileAt(cb, idx)[1].color) = sb.tiles[loc[1]][loc[2]]
                    /\ idx > 0 =>
                           LET prev == cb.locations[idx - 1]
                           IN  prev[1] * GridSize + prev[2] < loc[1] * GridSize + loc[2])
    /\ [][\A idx \in TileIds :
            TileAt(cb, idx)[1].color' = TileAt(cb, idx)[1].color]_vars

\* C32 witness: the third of three slides, which took the hole off its
\* start, moved a tile into the cell the hole left and left that tile's
\* copy behind in the cell that is now the hole.
C32_Witness ==
    /\ Called
    /\ bn = 3
    /\ blast.c_ret
    /\ cb.hole /= <<2, 2>>
    /\ \E idx \in TileIds :
           /\ cb.locations[idx] = blast.cb0.hole
           /\ blast.cb0.locations[idx] /= cb.locations[idx]
           /\ cb.tiles[cb.hole[1]][cb.hole[2]] /= None

\* ------------------------------------------------------ session properties
Last(seq) == seq[Len(seq)]
CountT(seq, t) == Cardinality({ i \in 1 .. Len(seq) : seq[i].t = t })
Started(g) == game[g].st = "running" \/ game[g].st = "done"

\* The board invariant of the data model.
BoardInvariant(b) ==
    /\ b.hole \in Cells
    /\ b.tiles[b.hole[1]][b.hole[2]] = None
    /\ Cardinality({ q \in Cells : b.tiles[q[1]][q[2]] = None }) = 1
    /\ Cardinality({ q \in Cells : b.tiles[q[1]][q[2]] /= None }) = TileCount
    /\ \A c \in Colors :
           Cardinality({ q \in Cells : b.tiles[q[1]][q[2]] = Some(c) }) = PerColor

\* C3: once a session has generated its boards, and after every Click it
\* processed, each of its two boards has exactly one empty cell, at hole,
\* 24 occupied cells, and 4 occupied cells of each of the 6 colors.
C3_SessionBoardsKeepInvariant ==
    \A g \in GameIds :
        Started(g) => \A i \in 0 .. 1 : BoardInvariant(game[g].boards[i])

\* C3 witness: a board that took two slides in a session, (2,1) then (2,0),
\* while the other board took none.
C3_Witness ==
    \E g \in GameIds : \E i \in 0 .. 1 :
        /\ Started(g)
        /\ game[g].nproc = 2
        /\ game[g].why \in { "moved", "win" }
        /\ game[g].boards[i].hole = <<2, 0>>
        /\ game[g].boards[1 - i].hole = <<2, 2>>

\* A finished game_loop takes nothing more from its event channel, sends
\* nothing more, and its channel accepts nothing more.
SessionOver(g) ==
    game[g].st = "done" =>
        /\ game'[g] = game[g]
        /\ chan'[game[g].rx] = chan[game[g].rx]

\* The last event game g processed was a Click that left the clicking
\* player's board matching the target.
WinProcessed(g) ==
    /\ Started(g)
    /\ game[g].nproc > 0
    /\ game[g].last.t = "Message"
    /\ matches_target(game[g].boards[game[g].last.id].tiles, game[g].target, FALSE)

\* C4: when the coordinator processes a Click of player i that makes player
\* i's board match the target, GameEnd{is_win: true} is the last message
\* sent to i, GameEnd{is_win: false} the last sent to 1 - i, each sent once,
\* and the coordinator is finished: it processes no further event, whatever
\* is still queued on its event channel.
C4_WinEndsSession ==
    /\ [](\A g \in GameIds :
            WinProcessed(g) =>
                LET i == game[g].last.id
                IN  /\ game[g].st = "done"
                    /\ Last(game[g].sent[i]) = GameEndMsg(TRUE)
                    /\ Last(game[g].sent[1 - i]) = GameEndMsg(FALSE)
                    /\ CountT(game[g].sent[i], "GameEnd") = 1
                    /\ CountT(game[g].sent[1 - i], "GameEnd") = 1)
    /\ [][\A g \in GameIds : WinProcessed(g) => SessionOver(g)]_vars

\* C4 witness: a session ended by a win while two more events wait on its
\* event channel.
C4_Witness ==
    \E g \in GameIds :
        /\ WinProcessed(g)
        /\ game[g].st = "done"
        /\ Len(chan[game[g].rx].q) >= 2

\* Game g handles an event in this step, and it is Disconnected.
DisconnectedStep(g) ==
    /\ game'[g].nproc = game[g].nproc + 1
    /\ game'[g].last.t = "Disconnected"

LeftProcessed(g) ==
    /\ Started(g)
    /\ game[g].nproc > 0
    /\ game[g].last.t = "Disconnected"

\* C5: when the coordinator processes Disconnected{id} in a running session,
\* it sends OpponentLeft to player 1 - id, once, sends nothing to player id,
\* and is finished: it processes no further event.
C5_DisconnectEndsSession ==
    /\ [][\A g \in GameIds :
            DisconnectedStep(g) =>
                LET id == game'[g].last.id
                IN  /\ game[g].st = "running"
                    /\ game'[g].st = "done"
                    /\ game'[g].sent[id] = game[g].sent[id]
                    /\ game'[g].sent[1 - id] =
                           Append(game[g].sent[1 - id], OpponentLeftMsg)]_vars
    /\ [](\A g \in GameIds :
            LeftProcessed(g) =>
                /\ CountT(game[g].sent[1 - game[g].last.id], "OpponentLeft") = 1
                /\ CountT(game[g].sent[game[g].last.id], "OpponentLeft") = 0)
    /\ [][\A g \in GameIds : LeftProcessed(g) => SessionOver(g)]_vars

\* C5 witness: a session ended by Disconnected{1} after a click was relayed,
\* with another event still queued.
C5_Witness ==
    \E g \in GameIds :
        /\ LeftProcessed(g)
        /\ game[g].last.id = 1
        /\ game[g].nproc >= 2
        /\ chan[game[g].rx].q /= << >>

\* The last event game g processed was a Click that broke the protocol: a
\* position outside the grid, or one that slid nothing.
ViolationProcessed(g) ==
    /\ game[g].st = "done"
    /\ game[g].last.t = "Message"
    /\ game[g].why \in { "oob", "noop" }

\* C10: when a session ends because player i sent a protocol-violating
\* Click (out of bounds, or one that moves no tile), OpponentLeft was sent
\* to player 1 - i.
C10_ViolationNotifiesPeer ==
    \A g \in GameIds :
        ViolationProcessed(g) =>
            CountT(game[g].sent[1 - game[g].last.id], "OpponentLeft") >= 1

\* Game g handles an event in this step, and it is a Click; whether the
\* coordinator accepts it: the position is in the grid and names a tile
\* the mover's board can slide.
GameClickStep(g) ==
    /\ game'[g].nproc = game[g].nproc + 1
    /\ game'[g].last.t = "Message"
ClickAcceptable(g) ==
    /\ game'[g].last.pos \in Cells
    /\ Aligned(game'[g].last.pos, game[g].boards[game'[g].last.id].hole)

\* C23: for an accepted Click{pos} of player i the coordinator appends one
\* OpponentClick{pos} to what it sent player 1 - i and none to player i;
\* when the mover's board then matches the target, GameEnd{false} follows
\* that OpponentClick for 1 - i and GameEnd{true} goes to i; the session
\* ends in that step exactly when the mover's board matches, and the other
\* board is left alone.
C23_AcceptedClickIsRelayed ==
    [][\A g \in GameIds :
         (GameClickStep(g) /\ ClickAcceptable(g)) =>
             LET i   == game'[g].last.id
                 pos == game'[g].last.pos
                 won == matches_target(game'[g].boards[i].tiles, game[g].target, FALSE)
             IN  /\ game'[g].sent[1 - i] =
                        game[g].sent[1 - i] \o << OpponentClickMsg(pos) >>
                            \o (IF won THEN << GameEndMsg(FALSE) >> ELSE << >>)
                 /\ game'[g].sent[i] =
                        game[g].sent[i] \o (IF won THEN << GameEndMsg(TRUE) >> ELSE << >>)
                 /\ game'[g].boards[1 - i] = game[g].boards[1 - i]
                 /\ (game'[g].st = "done") <=> won]_vars

\* C23 witness: each player had a click relayed to the other, and the
\* second of them won.
C23_Witness ==
    \E g \in GameIds : \E i \in 0 .. 1 :
        /\ game[g].st = "done"
        /\ game[g].nproc = 2
        /\ game[g].last.id = i
        /\ CountT(game[g].sent[i], "OpponentClick") = 1
        /\ Len(game[g].sent[1 - i]) = 3
        /\ game[g].sent[1 - i][2].t = "OpponentClick"
        /\ game[g].sent[1 - i][3] = GameEndMsg(FALSE)

\* C24: a Click out of the 5x5 grid, or one that slides nothing on the
\* sender's board, ends the session with both boards as they were and
\* nothing sent to either player; the position out of the grid is turned
\* down before a cell is indexed (no index runs out of bounds).
C24_RejectedClickEndsSession ==
    [][\A g \in GameIds :
         (GameClickStep(g) /\ ~ClickAcceptable(g)) =>
             /\ game'[g].st = "done"
             /\ game'[g].boards = game[g].boards
             /\ game'[g].sent = game[g].sent
             /\ game'[g].why /= "panic"
             /\ \A k \in ConnIds : conn'[k].rxq = conn[k].rxq]_vars

\* C24 witness: a session ended by a Click at (2,5), after a click was
\* accepted.
C24_Witness ==
    \E g \in GameIds :
        /\ game[g].st = "done"
        /\ game[g].nproc = 2
        /\ game[g].last.t = "Message"
        /\ game[g].last.pos = <<2, 5>>
        /\ \E i \in 0 .. 1 : game[g].boards[i].hole /= <<2, 2>>

\* Game g starts in this step.
BeginStep(g) == game[g].st = "spawned" /\ game'[g].st = "running"

\* C25: at session start each player i is sent one GameStart, the first
\* message on its outbound queue, with the shared target, board =
\* boards[i] and opponent_board = boards[1 - i]; no other GameStart is
\* ever sent.
C25_GameStartPerPlayer ==
    /\ [][\A g \in GameIds :
            BeginStep(g) =>
                \A i \in 0 .. 1 :
                    LET k == game[g].txs[i]
                    IN  /\ game'[g].sent[i] = << [t |-> "GameStart"] >>
                        /\ conn[k].rxq = << >>
                        /\ conn[k].st = "running" =>
                               conn'[k].rxq =
                                   << GameStartMsg(game'[g].target, game'[g].boards[i],
                                                   game'[g].boards[1 - i]) >>]_vars
    /\ [](\A g \in GameIds : \A i \in 0 .. 1 :
            Started(g) =>
                /\ CountT(game[g].sent[i], "GameStart") = 1
                /\ game[g].sent[i][1].t = "GameStart")

\* C25 witness: a session just started, GameStart waiting on both outbound
\* queues, each carrying the other's board as opponent_board.
C25_Witness ==
    \E g \in GameIds :
        /\ game[g].st = "running"
        /\ game[g].nproc = 0
        /\ game[g].boards[0] /= game[g].boards[1]
        /\ \A i \in 0 .. 1 :
               LET q == conn[game[g].txs[i]].rxq
               IN  /\ Len(q) = 1
                   /\ q[1].t = "GameStart"
                   /\ q[1].board = game[g].boards[i]
                   /\ q[1].opponent_board = game[g].boards[1 - i]
                   /\ q[1].target = game[g].target

\* C31: a freshly generated board matches no target, a server board of a
\* started session matches a target only while its hole lies outside rows
\* 1..3 and columns 1..3, and so neither board matches the session's target
\* in the step that sends GameStart.
C31_NoWinWhileHoleInCentre ==
    /\ [](\A g \in GameIds : \A i \in 0 .. 1 :
            Started(g) =>
                LET b == game[g].boards[i]
                IN  \A t \in C21Targets(b.tiles) \cup { game[g].target } :
                        matches_target(b.tiles, t, FALSE) => b.hole \notin Centre)
    /\ [][\A g \in GameIds :
            BeginStep(g) =>
                \A i \in 0 .. 1 :
                    LET b == game'[g].boards[i]
                    IN  /\ b.hole \in Centre
                        /\ game'[g].sent[i] = << [t |-> "GameStart"] >>
                        /\ \A t \in C21Targets(b.tiles) \cup { game'[g].target } :
                               ~matches_target(b.tiles, t, FALSE)]_vars

\* C31 witness: GameStart was sent, a click then took a board's hole out of
\* the region and that board matches the session's target, while the other
\* board, its hole still in the region, does not.
C31_Witness ==
    \E g \in GameIds : \E i \in 0 .. 1 :
        /\ Started(g)
        /\ game[g].sent[i][1].t = "GameStart"
        /\ game[g].boards[i].hole \notin Centre
        /\ matches_target(game[g].boards[i].tiles, game[g].target, FALSE)
        /\ game[g].boards[1 - i].hole \in Centre
        /\ ~matches_target(game[g].boards[1 - i].tiles, game[g].target, FALSE)

\* -------------------------------------------------------- lobby properties
Range(seq) == { seq[i] : i \in 1 .. Len(seq) }

\* The pool holds one free identifier and its other slot holds the websocket
\* accepted last: two arrivals in a row complete a pair.
OneWaiting ==
    /\ lobby.st = "running"
    /\ Len(lobby.free_ids) = 1
    /\ lobby.accepted >= 1
    /\ lobby.msg_txs[1 - lobby.free_ids[1]] = lobby.accepted
    /\ lobby.msg_txs[lobby.free_ids[1]] = NoConn

Accepting == lobby'.accepted = lobby.accepted + 1

\* C6: when a second websocket arrives right after the first of a pair,
\* exactly one game_loop is spawned; it is given the outbound senders of
\* those two websockets, under their ids, and the event channel their loops
\* write to; the pool is reset (free ids 0 and 1, both slots empty, a fresh
\* event channel nobody writes to yet).  A websocket accepted later writes
\* to another channel than that session's, and none of its events is on, or
\* was taken from, that session's channel.
C6_PairSpawnsOneSession ==
    /\ [][(OneWaiting /\ Accepting) =>
            LET a == lobby.accepted
                b == lobby.accepted + 1
                f == lobby.free_ids[1]
                c == lobby.cur
            IN  /\ game[c].st = "none"
                /\ game'[c].st = "spawned"
                /\ \A g \in GameIds : g /= c => game'[g] = game[g]
                /\ game'[c].txs = [i \in 0 .. 1 |-> IF i = f THEN b ELSE a]
                /\ game'[c].rx = c
                /\ conn'[a].ch = c /\ conn'[b].ch = c
                /\ conn'[a].id = 1 - f /\ conn'[b].id = f
                /\ conn'[a].tx_alive /\ conn'[b].tx_alive
                /\ lobby'.free_ids = <<0, 1>>
                /\ lobby'.msg_txs = [i \in 0 .. 1 |-> NoConn]
                /\ lobby'.cur /= c
                /\ chan'[lobby'.cur] = [q |-> << >>, open |-> TRUE]
                /\ \A k \in ConnIds : conn'[k].st /= "none" => conn'[k].ch /= lobby'.cur]_vars
    /\ [](\A g \in GameIds : \A k \in ConnIds :
            (   game[g].st /= "none" /\ conn[k].st /= "none"
             /\ k > game[g].txs[0] /\ k > game[g].txs[1]) =>
                /\ conn[k].ch /= game[g].rx
                /\ \A n \in 1 .. Len(chan[game[g].rx].q) : chan[game[g].rx].q[n].from /= k
                /\ game[g].nproc > 0 => game[g].last.from /= k)

\* C6 witness: the third websocket has passed on a message while the session
\* of the first two is running.
C6_Witness ==
    /\ game[1].st = "running"
    /\ game[1].txs = [i \in 0 .. 1 |-> 2 - i]
    /\ conn[3].st = "running"
    /\ conn[3].nmsg > 0

\* C7: free_ids never holds an identifier twice, never holds more than 2,
\* and holds an identifier exactly when its slot in msg_txs is None.
C7_FreeIdsIsAPool ==
    /\ Len(lobby.free_ids) <= 2
    /\ \A m, n \in 1 .. Len(lobby.free_ids) :
           m /= n => lobby.free_ids[m] /= lobby.free_ids[n]
    /\ \A i \in 0 .. 1 : (i \in Range(lobby.free_ids)) <=> (lobby.msg_txs[i] = NoConn)

\* C8: neither expect of the accept branch fails: the free-id stack is never
\* empty when a websocket is taken from ws_rx, and when a pop empties it
\* both slots hold a sender; an empty slot always has its identifier free.
C8_AcceptNeverPanics ==
    /\ lobby.st = "running"
    /\ lobby.free_ids /= << >>
    /\ \A i \in 0 .. 1 : lobby.msg_txs[i] = NoConn => i \in Range(lobby.free_ids)

\* C8 witness: a websocket was accepted from a pool that held an identifier
\* twice: that identifier is still free while its slot holds a sender.
C8_Witness ==
    /\ lobby.st = "running"
    /\ lobby.accepted >= 2
    /\ \E i \in 0 .. 1 : i \in Range(lobby.free_ids) /\ lobby.msg_txs[i] /= NoConn

\* C9: a ws_loop that is running has passed no Disconnected; one that has
\* ended passed Disconnected exactly once, as its last event, after every
\* Message, all under its own id; and it passes nothing afterwards.
C9_DisconnectedOnceAndLast ==
    /\ [](\A k \in ConnIds :
            /\ \A n \in 1 .. Len(conn[k].emitted) : conn[k].emitted[n].id = conn[k].id
            /\ conn[k].st = "running" => CountT(conn[k].emitted, "Disconnected") = 0
            /\ conn[k].st = "exited" =>
                   /\ CountT(conn[k].emitted, "Disconnected") = 1
                   /\ Last(conn[k].emitted).t = "Disconnected")
    /\ [][\A k \in ConnIds :
            conn[k].st = "exited" =>
                /\ conn'[k].st = "exited"
                /\ conn'[k].emitted = conn[k].emitted]_vars

\* C9 witness: a loop that ended after its event channel was closed (its
\* Disconnected found no receiver), having passed a Message before.
C9_Witness ==
    \E k \in ConnIds :
        /\ conn[k].st = "exited"
        /\ Len(conn[k].emitted) >= 2
        /\ conn[k].emitted[1].ok
        /\ ~Last(conn[k].emitted).ok

\* The lobby takes the event at the head of its channel in this step; game
\* g takes one.
LobbyTakes ==
    /\ chan[lobby.cur].q /= << >>
    /\ chan'[lobby.cur].q = Tail(chan[lobby.cur].q)
    /\ lobby'.cur = lobby.cur
GameTakes(g) == game'[g].nproc = game[g].nproc + 1

\* C29: an event is never applied to an identifier that a connection other
\* than its emitter holds: the lobby clears and frees the slot of id only
\* for an event of the connection stored there (or finds the slot empty),
\* and a coordinator handles only events of the connection that is its
\* player id.
C29_EventAppliedToItsEmitter ==
    /\ [][LobbyTakes =>
            LET ev == Head(chan[lobby.cur].q)
            IN  lobby.msg_txs[ev.id] \in { NoConn, ev.from }]_vars
    /\ [][\A g \in GameIds :
            GameTakes(g) => game[g].txs[game'[g].last.id] = game'[g].last.from]_vars

\* ------------------------------------------------------- client properties
\* The colors of a client grid: each Tile replaced by its color.
Project(tiles) ==
    [i \in Idx |-> [j \in Idx |->
        IF tiles[i][j] = None THEN None ELSE Some(tiles[i][j][1].color)]]

\* C11: a client is in WaitGameEnd only if the board the server holds for
\* that player, after the same clicks, matches the target (so the server
\* sends it GameEnd{is_win: true}).
C11_WaitGameEndIsAuthoritative ==
    client.state.s = "WaitGameEnd" =>
        matches_target(shadow.auth.tiles, client.target[1], FALSE)

\* C12: after the same clicks from the same initial grid, the client Board
\* (click_pos) and the server Board (click_tile) have the same hole and the
\* same content in all 25 cells, the hole's cell empty.  A click that slides
\* nothing changes neither board, so every board reached is reached by the
\* clicks that slid alone.
C12_ClientBoardEqualsServerBoard ==
    /\ cb.hole = sb.hole
    /\ Project(cb.tiles) = sb.tiles

\* A step of handle_click, the position of the tile clicked, and whether the
\* click is one the claim has queued: the state is Playing and the tile
\* shares the hole's row or column.
ClickStep == shadow'.nclick = shadow.nclick + 1
ClickedPos == client.board[1].locations[shadow'.input.idx]
ClickAccepted ==
    /\ client.state = StateOf("Playing")
    /\ client.board /= None
    /\ Aligned(ClickedPos, client.board[1].hole)

\* What an accepted click leaves besides the queue: the hole under the
\* clicked position, the target as it was, the state Playing or WaitGameEnd,
\* the opponent's board and the shutdown signal untouched, no panic.
ClickApplied ==
    /\ client'.board[1].hole = ClickedPos
    /\ client'.target = client.target
    /\ client'.state.s \in { "Playing", "WaitGameEnd" }
    /\ client'.opponent_board = client.opponent_board
    /\ client'.shutdown = client.shutdown
    /\ client'.panic = client.panic

\* C15 as claimed: handle_click queues Click{pos} exactly when the state is
\* Playing and the clicked tile slid; otherwise it queues nothing and
\* leaves board, target and state as they were.
C15_ClickQueuedWhenPlayingAndSlid ==
    [][ClickStep =>
          IF ClickAccepted
          THEN /\ client'.msgq = Append(client.msgq, ClickMsg(ClickedPos))
               /\ ClickApplied
          ELSE client' = client]_vars

\* C15 amended: when the state is Playing and the clicked tile slid,
\* handle_click passes Click{pos} to msg_tx.send, which queues it while the
\* send loop is running and drops it once the send loop has exited;
\* otherwise nothing is queued and the client is left as it was.
C15_ClickQueuedWhileSendLoopRuns ==
    [][ClickStep =>
          IF ClickAccepted
          THEN /\ client'.msgq = IF client.send_st = "running"
                                 THEN Append(client.msgq, ClickMsg(ClickedPos))
                                 ELSE client.msgq
               /\ ClickApplied
          ELSE client' = client]_vars

\* C15 witness: two clicks were made; the first was queued and matched the
\* target, the second found the state WaitGameEnd and queued nothing.
C15_Witness ==
    /\ shadow.nclick = 2
    /\ shadow.input.tag = "click"
    /\ client.state.s = "WaitGameEnd"
    /\ Len(client.msgq) + Len(client.wrote) = 1

\* A step of the receive loop that took a frame, and whether the message
\* it carried is inconsistent with the state it found.
RecvStep == shadow'.nrecv = shadow.nrecv + 1
Inconsistent(tag, st) ==
    \/ tag = "GameStart" /\ st.s /= "WaitingForOpponent"
    \/ tag = "OpponentClick" /\ st.s /= "Playing"
    \/ tag = "GameEnd" /\ st.s \notin { "Playing", "WaitGameEnd" }
    \/ tag = "OpponentLeft" /\ is_end(st)

\* C16: a server message inconsistent with the client's state leaves state,
\* target, both boards and everything else of the client as they were, and
\* triggers no shutdown.
C16_InconsistentMessageIgnored ==
    [][(RecvStep /\ Inconsistent(shadow'.input.tag, client.state)) =>
          client' = client]_vars

\* C16 witness: a GameStart was taken last, by a client whose game had
\* ended before it.
C16_Witness ==
    /\ shadow.input.tag = "GameStart"
    /\ shadow.nrecv = 3
    /\ client.state.s = "GameEnd"
    /\ client.recv_st = "running"

\* ------------------------------------------------ generator specification
\* One call of generate_target, a draw at a time, or one call of
\* Board::generate on the shuffle outcome of a seed.

\* gen_range(0..Color::COUNT) returned idx: one slot of one attempt.
TargetDraw(idx) ==
    /\ gen.mode = "target"
    /\ gen.g.k < 9
    /\ gen.retries <= MaxRetries
    /\ LET g == target_slot(gen.g, idx)
       IN  gen' = [gen EXCEPT !.g = g,
                              !.retries = IF g.k = 0 THEN @ + 1 ELSE @]
    /\ UNCHANGED <<boardVars, sysVars, clientVars>>

BoardGenerate ==
    /\ gen.mode = "board"
    /\ gen.board = None
    /\ gen' = [gen EXCEPT !.board = Some(generate(Shuffle(gen.seed)))]
    /\ UNCHANGED <<boardVars, sysVars, clientVars>>

GenInit ==
    /\ BoardIdle
    /\ SysIdle
    /\ ClientIdle
    /\ \/ gen = [NewGen EXCEPT !.mode = "target"]
       \/ \E s \in 0 .. MaxShuffleSeed :
              gen = [NewGen EXCEPT !.mode = "board", !.seed = s]

GenNext ==
    \/ \E idx \in 0 .. MaxDrawColor : TargetDraw(idx)
    \/ BoardGenerate

SpecGenerate == GenInit /\ [][GenNext]_vars

\* ----------------------------------------------------- generator properties
\* Cells of a grid of width n that hold color c.
TargetCells(target, c) ==
    { p \in (0 .. 2) \X (0 .. 2) : target[p[1]][p[2]] = c }
BoardCells(tiles, c) == { p \in Cells : tiles[p[1]][p[2]] = Some(c) }

\* C19: generate_target returns a 3x3 grid of colors in which no color
\* occurs more than 4 times, whatever the draws were and however many
\* attempts they made it discard.
C19_TargetWithinCap ==
    (gen.mode = "target" /\ gen.g.k = 9) =>
        /\ DOMAIN gen.g.target = 0 .. 2
        /\ \A r \in 0 .. 2 :
               /\ DOMAIN gen.g.target[r] = 0 .. 2
               /\ \A c \in 0 .. 2 : gen.g.target[r][c] \in Colors
        /\ \A c \in Colors : Cardinality(TargetCells(gen.g.target, c)) <= PerColor

\* C19 witness: a target returned by the attempt after a discarded one.
C19_Witness ==
    /\ gen.mode = "target"
    /\ gen.g.k = 9
    /\ gen.retries = 1

\* C20: Board::generate returns a grid with exactly 4 occupied cells of
\* each of the 6 colors and exactly one empty cell, at (2,2), and hole =
\* (2,2), whatever the shuffle did.
C20_GeneratedBoardShape ==
    (gen.mode = "board" /\ gen.board /= None) =>
        LET b == gen.board[1]
        IN  /\ b.hole = <<2, 2>>
            /\ { p \in Cells : b.tiles[p[1]][p[2]] = None } = { <<2, 2>> }
            /\ \A c \in Colors : Cardinality(BoardCells(b.tiles, c)) = PerColor

\* C20 witness: a board generated from an array the shuffle rearranged.
C20_Witness ==
    /\ gen.mode = "board"
    /\ gen.board /= None
    /\ gen.board[1] /= generate(BaseColors)

\* ------------------------------------------------ client failure properties
\* C17: every failure of the receive loop ends in ConnectionError: the
\* step that takes a receive error, a non-binary frame or a binary frame
\* that decodes to no ServerMessage sets state to ConnectionError and
\* triggers shutdown.
C17_ReceiveFailureIsConnectionError ==
    [][(RecvStep /\ shadow'.input.tag \in { "err", "other", "undecodable" }) =>
          /\ client'.state = StateOf("ConnectionError")
          /\ client'.shutdown]_vars

\* C18: once shutdown is triggered the send loop writes nothing more to
\* the connection, neither a queued Click nor a Ping.
C18_NoWriteAfterShutdown ==
    [][client.shutdown => client'.wrote = client.wrote]_vars


\* C26: the client's terminal states are absorbing: once state is GameEnd,
\* OpponentLeft or ConnectionError no step changes it, be it a frame taken,
\* a write that fails, a receive error or a click.
C26_TerminalStateIsAbsorbing ==
    [][is_end(client.state) => client'.state = client.state]_vars

\* C27: a client in a terminal state has had its shutdown triggered, and
\* every step into a terminal state triggers it in that step.
C27_TerminalMeansShutdown ==
    /\ [](is_end(client.state) => client.shutdown)
    /\ [][(~is_end(client.state) /\ is_end(client'.state)) =>
             client'.shutdown]_vars

\* C27 witness: a game lost, the send loop and the receive loop both gone
\* by the shutdown branch of their select.
C27_Witness ==
    /\ client.state = GameEndState(FALSE)
    /\ client.shutdown
    /\ client.send_st = "exited"
    /\ client.recv_st = "exited"
    /\ shadow.input.tag = "GameEnd"

\* The board every GameStart of ClientStarts carries for the player, and
\* the Clicks the client has sent through handle_click, in order: those the
\* send loop passed to the connection, then those still queued.
StartBoard == (CHOOSE m \in ClientStarts : TRUE).board
RECURSIVE ClicksOf(_, _)
ClicksOf(msgs, k) ==
    IF k > Len(msgs) THEN << >>
    ELSE (IF msgs[k].m = "Click" THEN << msgs[k].pos >> ELSE << >>)
             \o ClicksOf(msgs, k + 1)
SentClicks == ClicksOf(client.wrote \o client.msgq, 1)

\* game_loop's handling of the positions ps[k..] on board b (handlers.rs
\* 215-223): ok is FALSE once one is out of the grid or slides nothing.
RECURSIVE Replay(_, _, _)
Replay(b, ps, k) ==
    IF k > Len(ps) THEN [ok |-> TRUE, board |-> b]
    ELSE IF ps[k] \notin Cells THEN [ok |-> FALSE, board |-> b]
    ELSE LET r == click_tile(b, ps[k])
         IN  IF ~r.updated THEN [ok |-> FALSE, board |-> b]
             ELSE Replay([tiles |-> r.tiles, hole |-> r.hole], ps, k + 1)

\* C28: the Clicks a client sends through handle_click never make the
\* coordinator end the session for a protocol violation: processed in
\* order on the player's board of GameStart, each is in the grid and
\* click_tile returns true; and while the send loop takes the client's
\* Clicks, the hole of the client's board is the hole the server's board
\* has after them.
C28_SentClicksAreAccepted ==
    LET r == Replay(StartBoard, SentClicks, 1)
    IN  /\ r.ok
        /\ (client.board /= None /\ client.send_st = "running") =>
               client.board[1].hole = r.board.hole

\* C28 witness: two Clicks sent, the second from the hole the first left.
C28_Witness ==
    /\ Len(SentClicks) = 2
    /\ SentClicks[1] = <<2, 1>>
    /\ SentClicks[2] = <<2, 0>>
    /\ client.board /= None
    /\ client.board[1].hole = <<2, 0>>
    /\ client.send_st = "running"

C13_PingLeavesSessionAlone ==
    \A g \in GameIds :
        /\ game[g].nproc > 0 => game[g].last.t = "Message"
        /\ \A i \in 0 .. 1 : CountT(game[g].sent[i], "OpponentLeft") = 0

\* C14: the keepalive terminates nothing: with honest clients and no
\* transport fault, a websocket waiting to be paired keeps its slot, its
\* sender and its loop, and a session ends only by a win.
C14_KeepaliveTerminatesNothing ==
    /\ \A k \in ConnIds :
           (conn[k].st /= "none" /\ conn[k].ch = lobby.cur) =>
               /\ conn[k].st = "running"
               /\ conn[k].tx_alive
               /\ lobby.msg_txs[conn[k].id] = k
    /\ \A g \in GameIds : game[g].st = "done" => game[g].why = "win"

====
